---- MODULE Spec2Model ----
(***************************************************************************)
(* A model of the serial core of ostool's uboot-shell crate:               *)
(*   - UbootShell::new / wait_for_interrupt / wait_for_shell   (SpecSync)  *)
(*   - UbootShell::cmd / _cmd / wait_for_reply                 (SpecCmd)   *)
(*   - Ymodem::send / send_blk / wait_ack                      (SpecYmodem)*)
(* Bytes are naturals 0..255, text is a sequence of code points.  The      *)
(* alphabets used are ASCII plus the byte 0xFF, which is never valid in    *)
(* UTF-8 and therefore decodes to U+FFFD under from_utf8_lossy.            *)
(***************************************************************************)
EXTENDS Integers, Sequences, FiniteSets, TLC

(***************************************************************************)
(* Wire constants of lib.rs                                                *)
(***************************************************************************)
CTRL_C == 3
\* "<INTERRUPT>"
INT == <<60, 73, 78, 84, 69, 82, 82, 85, 80, 84, 62>>
\* "cmd-ok"
ok_str == <<99, 109, 100, 45, 111, 107>>
\* "&& echo "
AndEcho == <<38, 38, 32, 101, 99, 104, 111, 32>>
NL == 10
\* the replacement character U+FFFD and its UTF-8 encoding
REPLACEMENT == 65533
\* cmd: let mut retry = 3
CmdRetries == 3

(***************************************************************************)
(* Model bounds                                                            *)
(***************************************************************************)
\* lines the remote shell emits during synchronization
MaxLines == 2
\* interrupt bytes the sender task may write
MaxInterrupts == 4

(***************************************************************************)
(* Text helpers: the std operations the code calls, on sequences           *)
(***************************************************************************)
MaxOf(S) == CHOOSE x \in S : \A y \in S : y <= x

MinOf(S) == CHOOSE x \in S : \A y \in S : x <= y

\* char::is_whitespace (the Unicode White_Space property), used by str::trim*
IsWhitespace(c) ==
    c \in {9, 10, 11, 12, 13, 32, 133, 160, 5760, 8232, 8233, 8239, 8287, 12288}
    \/ (c >= 8192 /\ c <= 8202)

\* u8::is_ascii_whitespace, used by <[u8]>::trim_ascii_end (no vertical tab)
IsAsciiWhitespace(b) == b \in {9, 10, 12, 13, 32}

EndsWith(s, p) ==
    /\ Len(p) <= Len(s)
    /\ SubSeq(s, Len(s) - Len(p) + 1, Len(s)) = p

StartsWith(s, p) ==
    /\ Len(p) <= Len(s)
    /\ SubSeq(s, 1, Len(p)) = p

\* p occurs in s as a contiguous run
Contains(s, p) ==
    \E i \in 0..(Len(s) - Len(p)) : SubSeq(s, i + 1, i + Len(p)) = p

TrimAsciiEnd(s) ==
    LET keep == {i \in 1..Len(s) : ~IsAsciiWhitespace(s[i])}
    IN  IF keep = {} THEN <<>> ELSE SubSeq(s, 1, MaxOf(keep))

TrimEnd(s) ==
    LET keep == {i \in 1..Len(s) : ~IsWhitespace(s[i])}
    IN  IF keep = {} THEN <<>> ELSE SubSeq(s, 1, MaxOf(keep))

TrimStart(s) ==
    LET keep == {i \in 1..Len(s) : ~IsWhitespace(s[i])}
    IN  IF keep = {} THEN <<>> ELSE SubSeq(s, MinOf(keep), Len(s))

Trim(s) == TrimStart(TrimEnd(s))

\* str::trim_end_matches: strips every repetition of p; an empty p strips nothing
RECURSIVE TrimEndMatches(_, _)
TrimEndMatches(s, p) ==
    IF p # <<>> /\ EndsWith(s, p)
    THEN TrimEndMatches(SubSeq(s, 1, Len(s) - Len(p)), p)
    ELSE s

\* str::trim_start_matches
RECURSIVE TrimStartMatches(_, _)
TrimStartMatches(s, p) ==
    IF p # <<>> /\ StartsWith(s, p)
    THEN TrimStartMatches(SubSeq(s, Len(p) + 1, Len(s)), p)
    ELSE s

\* String::from_utf8_lossy on the alphabets of this model: ASCII decodes to
\* itself, 0xFF (never part of a UTF-8 sequence) to U+FFFD
Lossy(bytes) ==
    [i \in 1..Len(bytes) |-> IF bytes[i] < 128 THEN bytes[i] ELSE REPLACEMENT]

\* str::as_bytes: the UTF-8 encoding of a text
RECURSIVE AsBytes(_)
AsBytes(text) ==
    IF text = <<>> THEN <<>>
    ELSE (IF Head(text) < 128 THEN <<Head(text)>> ELSE <<239, 191, 189>>)
         \o AsBytes(Tail(text))

(***************************************************************************)
(* State                                                                   *)
(***************************************************************************)
VARIABLES
    \* UbootShell
    tx,              \* who holds the write half: "session" or "thread"
    rx,              \* bytes buffered on the read half, not yet read
    perfix,          \* UbootShell.perfix, a text
    txOut,           \* the writes made to the write half, oldest first
    \* UbootShell::new
    spc,             \* position of the caller's thread in new()
    tpc,             \* position of the interrupt-sender thread
    ok,              \* the AtomicBool stop flag
    history,         \* wait_for_interrupt: bytes of the current line
    interrupt_line,  \* wait_for_interrupt: the line that ended with INT
    emitted,         \* lines the remote has emitted so far
    firstTok,        \* the text in front of INT in the first token line emitted
    linesRead,       \* line terminators consumed by wait_for_interrupt
    readErr,         \* the last error read_byte returned to wait_for_interrupt
    writesAtStop,    \* how many interrupt bytes were written when ok was stored
    \* the remote shell
    prompt,          \* the bytes the remote prints as its prompt
    pending,         \* command lines received and not yet answered, oldest first
    remoteCap,       \* how many lines the remote holds unanswered; one more is lost
    remoteKinds,     \* the replies the remote may give to a command
    \* UbootShell::cmd
    cpc,             \* position of the caller in cmd()
    cmd,             \* the argument of the running cmd() call
    retry,           \* cmd: remaining attempts
    reply,           \* wait_for_reply: bytes accumulated
    lastErr,         \* the error of the last failed _cmd attempt
    result,          \* what the last cmd() call returned
    calls,           \* cmd() calls made so far
    sent,            \* lines written by the running cmd() call
    firstGot,        \* the reply the first attempt of the running call received
    allFail,         \* no reply emitted during the running call had the marker in front
    readFails,       \* read timeouts and read errors of the running call
    writeFails,      \* write errors of the running call
    staleAtCall,     \* unanswered lines or buffered bytes left when the call began
    prevResult,      \* Ok or Err: what the call before the running one returned
    pendingAtCall,   \* unanswered lines were left when the call began
    staleLines,      \* lines of earlier calls that are still unanswered
    ownGot,          \* the reply to the line of the first attempt, emitted during that attempt
    \* Ymodem
    crc_mode,        \* Ymodem.crc_mode
    blk,             \* Ymodem.blk
    retries,         \* Ymodem.retries
    ypc,             \* position of the caller in send()
    cur,             \* send_blk: the arguments and locals of the running call
    err,             \* send_blk: the error of the last failed wait_ack
    yresult,         \* what send() returned
    src,             \* the source: its size and what one read of it delivers at most
    filePos,         \* bytes read from the source so far
    send_size,       \* send: bytes handed to acknowledged data blocks
    progCalls,       \* calls of on_progress
    progLast,        \* the value of the last call of on_progress
    wire,            \* the last write to the device: a block or the EOT byte
    first,           \* the first transmission of the block being sent
    txCount,         \* blocks written to the device, retransmissions included
    txOfCur,         \* transmissions of the block being sent
    dataBlocks,      \* data blocks handed to send_blk so far
    lastRead,        \* the byte the last read of the device delivered: <<>> when nothing was
                     \* read since the last write or the read failed
    rejectsLeft,     \* negative answers and read failures the link will still produce
    shortReads,      \* a read of the source failed or delivered less than it could
    eots,            \* EOT bytes written
    seqs,            \* the sequence byte of each block's first transmission, in order
    link,            \* the receiver's answers in flight, oldest first, when src.linked
    \* UbootShell::set_env, env, env_int
    epc,             \* the operation that called cmd(): "idle", "set_env", "env" or "env_int"
    eresult,         \* what the last set_env, env or env_int call returned
    \* UbootShell::loady
    lpc,             \* position of the caller in loady()
    laddr,           \* the address argument of the running loady() call
    lreply,          \* wait_for_load_crc: bytes accumulated
    lresult,         \* what the last loady() call returned
    lfinal,          \* what the remote printed after it received the file
    loads,           \* loady() calls made so far
    \* parse_int
    pin,             \* the line handed to parse_int
    pout,            \* what env_int made of it
    \* SerialTerm::tx_work_async
    kpc,             \* position of the keyboard task: "idle", "await" or "done"
    key_state,       \* KeySequenceState: "Normal" or "CtrlAPressed"
    is_running,      \* TermHandle.is_running
    serial,          \* the bytes written to the serial port, oldest first
    keys,            \* the keys pressed so far, oldest first
    sendFailed       \* a write to the serial port has failed

shellVars == <<tx, rx, perfix, txOut>>
syncVars == <<spc, tpc, ok, history, interrupt_line, emitted, firstTok, linesRead, readErr,
              writesAtStop>>
cmdVars == <<prompt, pending, remoteCap, remoteKinds, staleLines, cpc, cmd, retry, reply, lastErr, result, calls, sent, firstGot,
             allFail, readFails, writeFails, staleAtCall, prevResult, pendingAtCall,
             ownGot>>
ymVars == <<crc_mode, blk, retries, ypc, cur, err, yresult, src, filePos, send_size,
            progCalls, progLast, wire, first, txCount, txOfCur, dataBlocks, lastRead,
            rejectsLeft, shortReads, eots, seqs, link>>
opVars == <<epc, eresult, lpc, laddr, lreply, lresult, lfinal, loads, pin, pout>>
termVars == <<kpc, key_state, is_running, serial, keys, sendFailed>>
vars == <<shellVars, syncVars, cmdVars, ymVars, opVars, termVars>>

(***************************************************************************)
(* Synchronization: UbootShell::new                                        *)
(***************************************************************************)
\* Lines the remote shell may print while it is being interrupted:
\* pre, then the token when tok, then tail (which ends the line).
SyncLines ==
    { \* "myprompt> <INTERRUPT>\n"
      [pre |-> <<109, 121, 112, 114, 111, 109, 112, 116, 62, 32>>, tok |-> TRUE,
       tail |-> <<NL>>],
      \* "<INTERRUPT>\r\n": nothing in front of the token
      [pre |-> <<>>, tok |-> TRUE, tail |-> <<13, NL>>],
      \* "\xFF=> <INTERRUPT> \n": a noise byte in front, a blank behind
      [pre |-> <<255, 61, 62, 32>>, tok |-> TRUE, tail |-> <<32, NL>>],
      \* "Hit\n": boot noise
      [pre |-> <<72, 105, 116>>, tok |-> FALSE, tail |-> <<NL>>],
      \* "<INTERRUPT>x\n": the token, but not at the end of the line
      [pre |-> INT \o <<120>>, tok |-> FALSE, tail |-> <<NL>>],
      \* "\n": an empty line
      [pre |-> <<>>, tok |-> FALSE, tail |-> <<NL>>] }

\* no transfer is running
InitYmIdle ==
    /\ crc_mode = FALSE
    /\ blk = 0
    /\ retries = 0
    /\ ypc = "idle"
    /\ cur = [kind |-> "none"]
    /\ err = <<"none">>
    /\ yresult = <<"none">>
    /\ src = [size |-> 0, chunk |-> 0, linked |-> FALSE]
    /\ filePos = 0
    /\ send_size = 0
    /\ progCalls = 0
    /\ progLast = 0
    /\ wire = <<>>
    /\ first = <<>>
    /\ txCount = 0
    /\ txOfCur = 0
    /\ dataBlocks = 0
    /\ lastRead = <<>>
    /\ rejectsLeft = 0
    /\ shortReads = FALSE
    /\ eots = 0
    /\ seqs = <<>>
    /\ link = <<>>

\* calls made on one session
MaxCalls == 2
\* command lines the remote holds unanswered; a line arriving beyond that is lost
MaxPending == 1

\* no terminal is running
InitTermIdle ==
    /\ kpc = "idle"
    /\ key_state = "Normal"
    /\ is_running = FALSE
    /\ serial = <<>>
    /\ keys = <<>>
    /\ sendFailed = FALSE

\* set_env, env, env_int and loady are not running
InitOpIdle ==
    /\ InitTermIdle
    /\ epc = "idle"
    /\ eresult = <<"none">>
    /\ lpc = "idle"
    /\ laddr = 0
    /\ lreply = <<>>
    /\ lresult = <<"none">>
    /\ lfinal = <<"none">>
    /\ loads = 0
    /\ pin = <<>>
    /\ pout = <<"none">>

\* cmd() is not running
InitCmdIdle ==
    /\ prompt = <<>>
    /\ pending = <<>>
    /\ cpc = "idle"
    /\ cmd = <<>>
    /\ retry = 0
    /\ reply = <<>>
    /\ lastErr = <<"none">>
    /\ result = <<"none">>
    /\ calls = 0
    /\ sent = <<>>
    /\ firstGot = <<"none">>
    /\ allFail = TRUE
    /\ readFails = 0
    /\ writeFails = 0
    /\ staleAtCall = FALSE
    /\ prevResult = "none"
    /\ pendingAtCall = FALSE
    /\ staleLines = 0
    /\ remoteCap = MaxPending
    /\ remoteKinds = {}
    /\ ownGot = <<"none">>

InitShellSync ==
    /\ tx = "session"
    /\ rx = <<>>
    /\ perfix = <<>>
    /\ txOut = <<>>
    /\ spc = "new"
    /\ tpc = "none"
    /\ ok = FALSE
    /\ history = <<>>
    /\ interrupt_line = <<>>
    /\ emitted = 0
    /\ firstTok = <<"none">>
    /\ linesRead = 0
    /\ readErr = <<"none">>
    /\ writesAtStop = 0
    /\ InitCmdIdle
    /\ InitYmIdle
    /\ InitOpIdle

\* the remote prints one more line
RemoteEmitLine ==
    /\ emitted < MaxLines
    /\ \E l \in SyncLines :
        /\ rx' = rx \o l.pre \o (IF l.tok THEN INT ELSE <<>>) \o l.tail
        /\ firstTok' = IF l.tok /\ firstTok = <<"none">> THEN <<"tok", l.pre, emitted + 1>>
                       ELSE firstTok
    /\ emitted' = emitted + 1
    /\ UNCHANGED <<tx, perfix, txOut, spc, tpc, ok, history, interrupt_line, linesRead>>
    /\ UNCHANGED <<readErr, writesAtStop, cmdVars, ymVars, opVars, termVars>>

\* new() builds the session; wait_for_interrupt takes tx and spawns the sender
NewStart ==
    /\ spc = "new"
    /\ tx' = "thread"
    /\ ok' = FALSE
    /\ tpc' = "check"
    /\ history' = <<>>
    /\ interrupt_line' = <<>>
    /\ spc' = "wfi_read"
    /\ UNCHANGED <<rx, perfix, txOut, emitted, firstTok, linesRead>>
    /\ UNCHANGED <<readErr, writesAtStop, cmdVars, ymVars, opVars, termVars>>

\* a variant that heeds the flag only once 2 bytes are written
SenderLoopLate(stop) == IF stop /\ Len(txOut) >= 2 THEN "done" ELSE "write"

\* sender thread: while !ok.load(Ordering::Acquire)
SenderLoop(stop) == IF stop THEN "done" ELSE "write"

\* sender thread: the loop condition is evaluated; the closure returns tx when
\* the flag is set
SenderCheck ==
    /\ tpc = "check"
    /\ tpc' = SenderLoop(ok)
    /\ UNCHANGED <<shellVars, spc, ok, history, interrupt_line, emitted, firstTok, linesRead>>
    /\ UNCHANGED <<readErr, writesAtStop, cmdVars, ymVars, opVars, termVars>>

\* sender thread: tx.write_all(&[CTRL_C]); sleep(20ms). MaxInterrupts bounds
\* the bytes written while the flag is clear; a sender past its check when the
\* flag is stored is not held back by the bound
SenderWrite ==
    /\ tpc = "write"
    /\ Len(txOut) < MaxInterrupts + (IF ok THEN 2 ELSE 0)
    /\ txOut' = Append(txOut, <<CTRL_C>>)
    /\ tpc' = "check"
    /\ UNCHANGED <<tx, rx, perfix, spc, ok, history, interrupt_line, emitted, firstTok,
                   linesRead>>
    /\ UNCHANGED <<readErr, writesAtStop, cmdVars, ymVars, opVars, termVars>>

\* a variant that accepts the token anywhere in the line
IsInterruptLineAnywhere(line) == Contains(line, INT)

\* wait_for_interrupt: let it = line.ends_with(INT)
IsInterruptLine(line) == EndsWith(line, INT)

\* wait_for_interrupt: read_byte returned Ok(ch)
WfiReadByte ==
    /\ spc = "wfi_read"
    /\ rx # <<>>
    /\ LET ch == Head(rx)
           h == Append(history, ch)
           line == TrimAsciiEnd(h)
           it == IsInterruptLine(line)
       IN  /\ rx' = Tail(rx)
           /\ IF ch = NL
              THEN /\ history' = <<>>
                   /\ linesRead' = linesRead + 1
                   /\ interrupt_line' = IF it THEN interrupt_line \o line
                                        ELSE interrupt_line
                   /\ ok' = IF it THEN TRUE ELSE ok
                   /\ writesAtStop' = IF it THEN Len(txOut) ELSE writesAtStop
                   /\ spc' = IF it THEN "wfi_join" ELSE spc
              ELSE /\ history' = h
                   /\ UNCHANGED <<linesRead, interrupt_line, ok, writesAtStop, spc>>
    /\ UNCHANGED <<tx, perfix, txOut, tpc, emitted, firstTok>>
    /\ UNCHANGED <<readErr, cmdVars, ymVars, opVars, termVars>>

\* the errors read_byte may return: its deadline, or an error of the read half
ReadErrors == {"TimedOut", "BrokenPipe"}

\* a variant that takes no error for a timeout
IsTimedOutNever(e) == FALSE

\* e.kind() == ErrorKind::TimedOut
IsTimedOut(e) == e = "TimedOut"

\* wait_for_interrupt: read_byte returned Err(TimedOut): continue
WfiReadTimeout ==
    /\ spc = "wfi_read"
    /\ rx = <<>>
    /\ \E e \in ReadErrors :
        /\ IsTimedOut(e)
        /\ readErr' = <<e>>
    /\ UNCHANGED <<shellVars, spc, tpc, ok, history, interrupt_line, emitted, firstTok,
                   linesRead, writesAtStop>>
    /\ UNCHANGED <<cmdVars, ymVars, opVars, termVars>>

\* wait_for_interrupt: read_byte returned another error: return Err(e)
WfiReadError ==
    /\ spc = "wfi_read"
    /\ \E e \in ReadErrors :
        /\ ~IsTimedOut(e)
        /\ readErr' = <<e>>
    /\ spc' = "failed"
    /\ UNCHANGED <<shellVars, tpc, ok, history, interrupt_line, emitted, firstTok, linesRead,
                   writesAtStop>>
    /\ UNCHANGED <<cmdVars, ymVars, opVars, termVars>>

\* wait_for_shell: line.resize(line.len() - INT.len(), 0), then lossy decoding
PrefixOf(line) == Lossy(SubSeq(line, 1, Len(line) - Len(INT)))

\* wait_for_interrupt joins the sender and takes tx back; wait_for_shell stores the
\* prefix and clear_shell discards what is buffered; new() returns Ok
WfiJoin ==
    /\ spc = "wfi_join"
    /\ tpc = "done"
    /\ tx' = "session"
    /\ perfix' = PrefixOf(interrupt_line)
    /\ rx' = <<>>
    /\ spc' = "ready"
    /\ UNCHANGED <<txOut, tpc, ok, history, interrupt_line, emitted, firstTok, linesRead>>
    /\ UNCHANGED <<readErr, writesAtStop, cmdVars, ymVars, opVars, termVars>>

NextSync ==
    \/ RemoteEmitLine
    \/ NewStart
    \/ SenderCheck
    \/ SenderWrite
    \/ WfiReadByte
    \/ WfiReadTimeout
    \/ WfiReadError
    \/ WfiJoin

SpecSync == InitShellSync /\ [][NextSync]_vars

\* the sender thread and the join of the caller's thread are scheduled: a write
\* to the channel returns, the thread wakes from its sleep, join returns once
\* the closure has returned
SpecSyncLive ==
    /\ SpecSync
    /\ WF_vars(SenderCheck)
    /\ WF_vars(SenderWrite)
    /\ WF_vars(WfiJoin)

(***************************************************************************)
(* Command execution: UbootShell::cmd                                      *)
(***************************************************************************)
\* "hi\n", the output of the command
OutHi == <<104, 105, NL>>

\* the outputs of the command: nothing, "hi\n",
\* " a myprompt> b\n" (an output that holds the text of a prompt),
\* "hicmd-ok" (an output that ends with the marker text and no line end) and
\* "echo hi&& echo cmd-ok z\n" (an output that begins like the command line)
Outs ==
    { <<>>,
      OutHi,
      <<32, 97, 32, 109, 121, 112, 114, 111, 109, 112, 116, 62, 32, 98, NL>>,
      <<104, 105>> \o ok_str,
      <<101, 99, 104, 111, 32, 104, 105>> \o AndEcho \o ok_str \o <<32, 122, NL>> }

\* A reply of the remote: the echoed line when echo, the output, the marker line
\* when the command succeeded, then the prompt
ReplyKinds ==
    {k \in [echo : BOOLEAN, out : Outs, marker : BOOLEAN] :
        k.echo => k.out \in {<<>>, OutHi}}

\* "bootargs", the variable the calls of set_env, env and env_int name
EnvName == <<98, 111, 111, 116, 97, 114, 103, 115>>

\* format!("echo ${}", name)
EchoCmd(name) == <<101, 99, 104, 111, 32, 36>> \o name

\* format!("setenv {} {}", name, value)
SetenvCmd(name, value) == <<115, 101, 116, 101, 110, 118, 32>> \o name \o <<32>> \o value

\* "\nconsole=ttyS0\n"
OutConsole ==
    <<NL, 99, 111, 110, 115, 111, 108, 101, 61, 116, 116, 121, 83, 48, NL>>

\* what `echo $name` may print: the console line, nothing, blank lines only
\* (" \n\t\n"), a banner line and a value with a blank in front
\* ("U-Boot\n 0x1F\n"), "12ab\n", and two to the 64th ("18446744073709551616\n")
EnvOuts ==
    { OutConsole,
      <<>>,
      <<32, NL, 9, NL>>,
      <<85, 45, 66, 111, 111, 116, NL, 32, 48, 120, 49, 70, NL>>,
      <<49, 50, 97, 98, NL>>,
      <<49, 56, 52, 52, 54, 55, 52, 52, 48, 55, 51, 55, 48, 57, 53, 53, 49, 54, 49, 54, NL>> }

\* what the remote may answer to `echo $name`
EnvKinds ==
    {k \in [echo : BOOLEAN, out : EnvOuts, marker : BOOLEAN] :
        k.echo => (k.out = OutConsole /\ k.marker)}

\* what the remote may answer to `setenv name value`
SetenvKinds == [echo : {FALSE}, out : {<<>>}, marker : BOOLEAN]

\* "loady ": how the line loady() writes begins
LoadyWord == <<108, 111, 97, 100, 121, 32>>

IsLoadyLine(line) == StartsWith(line, LoadyWord)

\* the replies the remote may give to a command line
KindsFor(line) ==
    IF StartsWith(line, EchoCmd(<<>>)) THEN EnvKinds
    ELSE IF StartsWith(line, SetenvCmd(<<>>, <<>>)) THEN SetenvKinds
    ELSE remoteKinds

\* format!("{cmd}&& echo {ok_str}")
CmdWithId(c) == c \o AndEcho \o ok_str

\* a variant that ends the line with "\r\n"
CmdLineCrLf(c) == AsBytes(c) \o <<13, NL>>

\* cmd_without_reply: the bytes of the command, then "\n"
CmdLine(c) == AsBytes(c) \o <<NL>>

\* the text of a reply in front of the prompt
ReplyFront(k, line) ==
    (IF k.echo THEN line ELSE <<>>) \o k.out
    \o (IF k.marker THEN ok_str \o <<NL>> ELSE <<>>)

ReplyBytes(k, line) == ReplyFront(k, line) \o prompt

\* the bytes in front of the first occurrence of p in bytes (p occurs in bytes)
FrontOf(bytes, p) ==
    LET at == MinOf({i \in 0..(Len(bytes) - Len(p)) : SubSeq(bytes, i + 1, i + Len(p)) = p})
    IN  SubSeq(bytes, 1, at)

\* the reply reaches the prompt-prefix p and the marker is not in front of it
NoMarkerReply(bytes, p) ==
    /\ Contains(bytes, p)
    /\ ~EndsWith(TrimEnd(FrontOf(bytes, p)), ok_str)

\* a synchronized session whose remote prints one of the prompts ps, holds up to
\* cap lines unanswered and answers a command with one of kinds
InitSession(ps, cap, kinds) ==
    /\ tx = "session"
    /\ rx = <<>>
    /\ prompt \in ps
    /\ perfix = Lossy(prompt)
    /\ txOut = <<>>
    /\ spc = "ready"
    /\ tpc = "done"
    /\ ok = TRUE
    /\ history = <<>>
    /\ interrupt_line = prompt \o INT
    /\ emitted = 0
    /\ firstTok = <<"none">>
    /\ linesRead = 0
    /\ readErr = <<"none">>
    /\ writesAtStop = 0
    /\ pending = <<>>
    /\ cpc = "idle"
    /\ cmd = <<>>
    /\ retry = 0
    /\ reply = <<>>
    /\ lastErr = <<"none">>
    /\ result = <<"none">>
    /\ calls = 0
    /\ sent = <<>>
    /\ firstGot = <<"none">>
    /\ allFail = TRUE
    /\ readFails = 0
    /\ writeFails = 0
    /\ staleAtCall = FALSE
    /\ prevResult = "none"
    /\ pendingAtCall = FALSE
    /\ staleLines = 0
    /\ remoteCap = cap
    /\ remoteKinds = kinds
    /\ ownGot = <<"none">>
    /\ InitYmIdle
    /\ InitOpIdle

\* a session whose remote prints "myprompt> ", "" or "\xFF=> ", prompts a
\* synchronization can capture
InitCmd ==
    InitSession({ <<109, 121, 112, 114, 111, 109, 112, 116, 62, 32>>,
                  <<>>,
                  <<255, 61, 62, 32>> },
                MaxPending, ReplyKinds)

\* the remote answers the oldest unanswered command line
RemoteReply ==
    /\ pending # <<>>
    /\ ~IsLoadyLine(Head(pending))
    /\ \E k \in KindsFor(Head(pending)) :
        /\ rx' = rx \o ReplyBytes(k, Head(pending))
        /\ ownGot' = IF ownGot # <<"none">> THEN ownGot
                     ELSE IF staleLines > 0 THEN ownGot
                     ELSE IF cpc = "wait" /\ Len(sent) = 1 THEN <<"reply", k>>
                     ELSE <<"late">>
        /\ staleLines' = IF staleLines > 0 THEN staleLines - 1 ELSE 0
        /\ firstGot' = IF firstGot # <<"none">> THEN firstGot
                       ELSE IF cpc = "wait" /\ Len(sent) = 1 /\ ~staleAtCall
                            THEN <<"reply", k>>
                            ELSE <<"late">>
        /\ allFail' = (allFail /\ NoMarkerReply(ReplyBytes(k, Head(pending)), AsBytes(perfix)))
    /\ pending' = Tail(pending)
    /\ UNCHANGED <<tx, perfix, txOut, syncVars, prompt, cpc, cmd, retry, reply, lastErr,
                   result, calls, sent, readFails, writeFails, staleAtCall, prevResult,
                   pendingAtCall, remoteCap, remoteKinds>>
    /\ UNCHANGED <<ymVars, opVars, termVars>>

\* no call is running and one more may be made
CanCall ==
    /\ cpc = "idle"
    /\ epc = "idle"
    /\ lpc = "idle"
    /\ calls < MaxCalls

\* cmd(c) begins: let mut retry = 3
StartCmd(c) ==
    /\ cmd' = c
    /\ retry' = CmdRetries
    /\ calls' = calls + 1
    /\ cpc' = "loop"
    /\ reply' = <<>>
    /\ lastErr' = <<"none">>
    /\ result' = <<"none">>
    /\ sent' = <<>>
    /\ firstGot' = <<"none">>
    /\ allFail' = TRUE
    /\ readFails' = 0
    /\ writeFails' = 0
    /\ staleAtCall' = (pending # <<>> \/ rx # <<>>)
    /\ prevResult' = result[1]
    /\ pendingAtCall' = (pending # <<>>)
    /\ staleLines' = Len(pending)
    /\ ownGot' = <<"none">>
    /\ UNCHANGED <<shellVars, syncVars, prompt, pending, remoteCap, remoteKinds>>
    /\ UNCHANGED ymVars

\* cmd("echo hi") is called
CmdCall ==
    /\ CanCall
    /\ \E c \in { <<101, 99, 104, 111, 32, 104, 105>> } : StartCmd(c)
    /\ UNCHANGED <<opVars, termVars>>

\* a variant that leaves what is buffered where it is
KeptBuffered(buf) == buf

\* read_to_end(&mut vec![]): what is left of the buffered bytes buf
Drained(buf) == <<>>

\* a variant that takes the prefix out of the session and leaves it empty
TakePerfix(p) == <<>>

\* self.perfix.clone(): what the session holds once the copy is made
ClonePerfix(p) == p

\* _cmd: read_to_end discards what is buffered, then the line is written
CmdSend ==
    /\ cpc = "loop"
    /\ retry > 0
    /\ rx' = Drained(rx)
    /\ sent' = Append(sent, CmdLine(CmdWithId(cmd)))
    /\ pending' = IF Len(pending) < remoteCap
                  THEN Append(pending, CmdLine(CmdWithId(cmd)))
                  ELSE pending
    /\ reply' = <<>>
    /\ cpc' = "wait"
    /\ perfix' = ClonePerfix(perfix)
    /\ UNCHANGED <<tx, txOut, syncVars, prompt, cmd, retry, lastErr, result, calls,
                   firstGot, allFail, readFails, writeFails, staleAtCall, prevResult,
                   pendingAtCall, ownGot, remoteCap, remoteKinds,
                   staleLines>>
    /\ UNCHANGED <<ymVars, opVars, termVars>>

\* _cmd: the write fails; cmd counts the attempt and sleeps
CmdSendError ==
    /\ cpc = "loop"
    /\ retry > 0
    /\ rx' = Drained(rx)
    /\ lastErr' = <<"write">>
    /\ writeFails' = writeFails + 1
    /\ retry' = retry - 1
    /\ UNCHANGED <<tx, perfix, txOut, syncVars, prompt, pending, cpc, cmd, reply, result,
                   calls, sent, firstGot, allFail, readFails, staleAtCall, prevResult, pendingAtCall, ownGot, remoteCap, remoteKinds,
                   staleLines>>
    /\ UNCHANGED <<ymVars, opVars, termVars>>

\* a variant that takes all that is buffered before it looks for val
ReadCountAll(acc, buf, val) == Len(buf)

\* wait_for_reply: how many of the buffered bytes the loop reads, one at a time,
\* until reply ends with val; all of them when it does not get there
ReadCount(acc, buf, val) ==
    LET hits == {i \in 1..Len(buf) : EndsWith(acc \o SubSeq(buf, 1, i), val)}
    IN  IF hits = {} THEN Len(buf) ELSE MinOf(hits)

\* wait_for_reply: the buffered bytes are read; the loop ends when reply ends with val
CmdRead ==
    /\ cpc = "wait"
    /\ rx # <<>>
    /\ LET n == ReadCount(reply, rx, AsBytes(perfix))
       IN  /\ reply' = reply \o SubSeq(rx, 1, n)
           /\ rx' = SubSeq(rx, n + 1, Len(rx))
    /\ cpc' = IF EndsWith(reply', AsBytes(perfix)) THEN "judge" ELSE "wait"
    /\ UNCHANGED <<tx, perfix, txOut, syncVars, prompt, pending, cmd, retry, lastErr, result,
                   calls, sent, firstGot, allFail, readFails, writeFails, staleAtCall,
                   prevResult, pendingAtCall, ownGot, remoteCap, remoteKinds,
                   staleLines>>
    /\ UNCHANGED <<ymVars, opVars, termVars>>

\* wait_for_reply: read_byte fails once nothing is buffered, with its deadline
\* (TimedOut) or with another error of the read half; cmd counts the attempt
CmdReadFail ==
    /\ cpc = "wait"
    /\ rx = <<>>
    /\ \E kind \in {"timeout", "read"} : lastErr' = <<kind>>
    /\ readFails' = readFails + 1
    /\ retry' = retry - 1
    /\ cpc' = "loop"
    /\ UNCHANGED <<shellVars, syncVars, prompt, pending, cmd, reply, result, calls, sent,
                   firstGot, allFail, writeFails, staleAtCall, prevResult,
                   pendingAtCall, ownGot, remoteCap, remoteKinds,
                   staleLines>>
    /\ UNCHANGED <<ymVars, opVars, termVars>>

\* what wait_for_reply returns for the bytes it accumulated
WaitForReplyText(bytes) == TrimEndMatches(Trim(Lossy(bytes)), perfix)

\* _cmd: the response with the prompt stripped
CmdRes(bytes) ==
    TrimEnd(TrimEndMatches(TrimEnd(WaitForReplyText(bytes)), Trim(perfix)))

\* a variant that accepts the marker anywhere in the response
CmdSucceededAnywhere(res) == Contains(res, ok_str)

\* _cmd: the attempt succeeded when the response ends with the marker
CmdSucceeded(res) == EndsWith(res, ok_str)

\* a variant that leaves the echoed command line in the output
CmdOutputWithEcho(res, c) == Trim(TrimEnd(TrimEndMatches(Trim(res), ok_str)))

\* _cmd: the output returned on success
CmdOutput(res, c) ==
    Trim(TrimStartMatches(TrimEnd(TrimEndMatches(Trim(res), ok_str)), CmdWithId(c)))

\* _cmd judges the response; cmd returns Ok or counts the attempt and sleeps
CmdJudge ==
    /\ cpc = "judge"
    /\ LET res == CmdRes(reply)
       IN  IF CmdSucceeded(res)
           THEN /\ result' = <<"Ok", CmdOutput(res, cmd)>>
                /\ cpc' = "idle"
                /\ UNCHANGED <<retry, lastErr>>
           ELSE /\ lastErr' = <<"failed", res>>
                /\ retry' = retry - 1
                /\ cpc' = "loop"
                /\ UNCHANGED result
    /\ UNCHANGED <<shellVars, syncVars, prompt, pending, cmd, reply, calls, sent, firstGot, allFail,
                   readFails, writeFails, staleAtCall, prevResult, pendingAtCall,
                   ownGot, remoteCap, remoteKinds,
                   staleLines>>
    /\ UNCHANGED <<ymVars, opVars, termVars>>

\* a variant whose text ends with the response of the last attempt as read
CmdFailedWithResponse(c) ==
    <<99, 111, 109, 109, 97, 110, 100, 32, 96>> \o c
    \o <<96, 32, 102, 97, 105, 108, 101, 100, 44, 32, 114, 101, 115, 112, 111, 110, 115,
         101, 58, 32>> \o Lossy(reply)

\* cmd: format!("command `{cmd}` failed after retries")
CmdFailedAfterRetries(c) ==
    <<99, 111, 109, 109, 97, 110, 100, 32, 96>> \o c
    \o <<96, 32, 102, 97, 105, 108, 101, 100, 32, 97, 102, 116, 101, 114, 32, 114, 101,
         116, 114, 105, 101, 115>>

\* cmd: the attempts are used up; the error returned holds the text above
CmdGiveUp ==
    /\ cpc = "loop"
    /\ retry = 0
    /\ result' = <<"Err", "failed after retries", CmdFailedAfterRetries(cmd)>>
    /\ cpc' = "idle"
    /\ UNCHANGED <<shellVars, syncVars, prompt, pending, cmd, retry, reply, lastErr, calls,
                   sent, firstGot, allFail, readFails, writeFails, staleAtCall, prevResult, pendingAtCall, ownGot, remoteCap, remoteKinds,
                   staleLines>>
    /\ UNCHANGED <<ymVars, opVars, termVars>>

NextCmd ==
    \/ RemoteReply
    \/ CmdCall
    \/ CmdSend
    \/ CmdSendError
    \/ CmdRead
    \/ CmdReadFail
    \/ CmdJudge
    \/ CmdGiveUp

SpecCmd == InitCmd /\ [][NextCmd]_vars

\* the same calls against a remote that prints "myprompt> ", holds one more line
\* and answers "hi\n" or nothing, with or without the marker line
InitCmdAgain ==
    InitSession({<<109, 121, 112, 114, 111, 109, 112, 116, 62, 32>>}, MaxPending + 1,
                {k \in ReplyKinds : ~k.echo /\ k.out \in {<<>>, OutHi}})

SpecCmdAgain == InitCmdAgain /\ [][NextCmd]_vars

(***************************************************************************)
(* Environment variables: set_env, env, env_int and parse_int              *)
(***************************************************************************)
\* longest text handed to parse_int, the texts listed by name aside
MaxText == 3

\* the lines env_int hands to parse_int: the texts of '0', '1', '9', 'a', 'F', 'g',
\* 'x', ' ', '+' and '-' up to MaxText long, and "18446744073709551616",
\* "0x10000000000000000", "0000000000000000000007", "0x00000000000000001f",
\* "0x+1f" and " 0x1F"
ParseInputs ==
    (UNION {[1..n -> {48, 49, 57, 97, 70, 103, 120, 32, 43, 45}] : n \in 0..MaxText})
    \cup
    { <<49, 56, 52, 52, 54, 55, 52, 52, 48, 55, 51, 55, 48, 57, 53, 53, 49, 54, 49, 54>>,
      <<48, 120, 49>> \o [i \in 1..16 |-> 48],
      [i \in 1..21 |-> 48] \o <<55>>,
      <<48, 120>> \o [i \in 1..16 |-> 48] \o <<49, 102>>,
      <<48, 120, 43, 49, 102>>,
      <<32, 48, 120, 49, 70>> }

\* a variant that knows the decimal digits only
IsDecimalDigit(c, radix) == c \in 48..57

\* char::to_digit(radix) is Some
IsDigitOf(c, radix) ==
    \/ c \in 48..57
    \/ radix = 16 /\ (c \in 97..102 \/ c \in 65..70)

RECURSIVE StripZeros(_)
StripZeros(d) == IF d # <<>> /\ d[1] = 48 THEN StripZeros(Tail(d)) ELSE d

\* a comes after b in the order of the dictionary; a and b are equally long
RECURSIVE LexGreater(_, _)
LexGreater(a, b) ==
    IF a = <<>> THEN FALSE
    ELSE IF a[1] # b[1] THEN a[1] > b[1]
    ELSE LexGreater(Tail(a), Tail(b))

\* the number the digits d denote does not fit in 64 bits: it has more digits than
\* u64::MAX, "18446744073709551615" in decimal, or as many and is greater
ExceedsU64(d, radix) ==
    LET sig == StripZeros(d)
    IN  IF radix = 16 THEN Len(sig) > 16
        ELSE Len(sig) > 20 \/ (Len(sig) = 20 /\ LexGreater(sig,
            <<49, 56, 52, 52, 54, 55, 52, 52, 48, 55, 51, 55, 48, 57, 53, 53, 49, 54, 49, 53>>))

\* the number the digits d denote, digit by digit as from_str_radix adds them up
RECURSIVE Accumulate(_, _, _)
Accumulate(acc, d, radix) ==
    LET c == d[1]
        \* char::to_digit
        digit == IF c \in 48..57 THEN c - 48 ELSE IF c \in 97..102 THEN c - 87 ELSE c - 55
    IN  IF d = <<>> THEN acc ELSE Accumulate(acc * radix + digit, Tail(d), radix)

\* u64::from_str_radix(text, radix).ok(): one sign '+' may lead, then digits only,
\* and the number fits in 64 bits
FromStrRadix(text, radix) ==
    LET d == IF text # <<>> /\ text[1] = 43 THEN Tail(text) ELSE text
    IN  IF d = <<>> \/ (\E i \in 1..Len(d) : ~IsDigitOf(d[i], radix)) \/ ExceedsU64(d, radix)
        THEN <<"None">>
        ELSE <<"Some", Accumulate(0, StripZeros(d), radix)>>

\* parse_int; the cast to usize leaves every number met here as it is
ParseInt(line) ==
    LET t == Trim(line)
    IN  IF StartsWith(t, <<48, 120>>)
        THEN FromStrRadix(SubSeq(t, 3, Len(t)), 16)
        ELSE FromStrRadix(t, 10)

\* s.split("\n")
RECURSIVE Split(_)
Split(s) ==
    LET nl == {i \in 1..Len(s) : s[i] = NL}
    IN  IF nl = {} THEN <<s>>
        ELSE <<SubSeq(s, 1, MinOf(nl) - 1)>> \o Split(SubSeq(s, MinOf(nl) + 1, Len(s)))

\* a variant that takes the first of the lines
FirstOf(sp) == sp[1]

\* sp.last()
LastOf(sp) == sp[Len(sp)]

\* env: what it makes of the result res of cmd
EnvOf(res) ==
    IF res[1] # "Ok" THEN res
    ELSE LET \* filter(|s| !s.trim().is_empty())
             sp == SelectSeq(Split(res[2]), LAMBDA l : Trim(l) # <<>>)
         IN  IF sp = <<>> THEN <<"Err", "NotFound">> ELSE <<"Ok", LastOf(sp)>>

\* env_int: what it makes of the result res of env
EnvIntOf(res) ==
    IF res[1] # "Ok" THEN res
    ELSE LET v == ParseInt(res[2])
         IN  IF v = <<"None">> THEN <<"Err", "InvalidData">> ELSE <<"Ok", v[2]>>

\* set_env: what it makes of the result res of cmd
SetEnvOf(res) == IF res[1] # "Ok" THEN res ELSE <<"Ok", <<>>>>

\* set_env(name, "1") is called and calls cmd
SetEnvCall ==
    /\ CanCall
    /\ StartCmd(SetenvCmd(EnvName, <<49>>))
    /\ epc' = "set_env"
    /\ eresult' = <<"none">>
    /\ UNCHANGED <<lpc, laddr, lreply, lresult, lfinal, loads, pin, pout, termVars>>

\* env(name) is called and calls cmd
EnvCall ==
    /\ CanCall
    /\ StartCmd(EchoCmd(EnvName))
    /\ epc' = "env"
    /\ eresult' = <<"none">>
    /\ UNCHANGED <<lpc, laddr, lreply, lresult, lfinal, loads, pin, pout, termVars>>

\* env_int(name) is called, calls env, and env calls cmd
EnvIntCall ==
    /\ CanCall
    /\ StartCmd(EchoCmd(EnvName))
    /\ epc' = "env_int"
    /\ eresult' = <<"none">>
    /\ UNCHANGED <<lpc, laddr, lreply, lresult, lfinal, loads, pin, pout, termVars>>

\* cmd has returned to set_env, env or env_int, which returns in turn
EnvReturn ==
    /\ epc # "idle"
    /\ cpc = "idle"
    /\ eresult' = <<epc>> \o (CASE epc = "set_env" -> SetEnvOf(result)
                              [] epc = "env" -> EnvOf(result)
                              [] epc = "env_int" -> EnvIntOf(EnvOf(result)))
    /\ epc' = "idle"
    /\ UNCHANGED <<shellVars, syncVars, cmdVars, ymVars>>
    /\ UNCHANGED <<lpc, laddr, lreply, lresult, lfinal, loads, pin, pout, termVars>>

NextEnv ==
    \/ RemoteReply
    \/ SetEnvCall
    \/ EnvCall
    \/ EnvIntCall
    \/ CmdSend
    \/ CmdSendError
    \/ CmdRead
    \/ CmdReadFail
    \/ CmdJudge
    \/ CmdGiveUp
    \/ EnvReturn

\* a session whose remote prints "myprompt> "
InitEnv ==
    InitSession({<<109, 121, 112, 114, 111, 109, 112, 116, 62, 32>>}, MaxPending, {})

SpecEnv == InitEnv /\ [][NextEnv]_vars

\* env_int has the line pin from env and hands it to parse_int
EnvIntParse ==
    /\ pout = <<"none">>
    /\ pout' = EnvIntOf(<<"Ok", pin>>)
    /\ UNCHANGED <<shellVars, syncVars, cmdVars, ymVars>>
    /\ UNCHANGED <<epc, eresult, lpc, laddr, lreply, lresult, lfinal, loads, pin, termVars>>

InitParse ==
    /\ tx = "session"
    /\ rx = <<>>
    /\ perfix = <<>>
    /\ txOut = <<>>
    /\ spc = "ready"
    /\ tpc = "done"
    /\ ok = TRUE
    /\ history = <<>>
    /\ interrupt_line = INT
    /\ emitted = 0
    /\ firstTok = <<"none">>
    /\ linesRead = 0
    /\ readErr = <<"none">>
    /\ writesAtStop = 0
    /\ InitCmdIdle
    /\ InitYmIdle
    /\ epc = "idle"
    /\ eresult = <<"none">>
    /\ lpc = "idle"
    /\ laddr = 0
    /\ lreply = <<>>
    /\ lresult = <<"none">>
    /\ lfinal = <<"none">>
    /\ loads = 0
    /\ pin \in ParseInputs
    /\ pout = <<"none">>
    /\ InitTermIdle

SpecParse == InitParse /\ [][EnvIntParse]_vars

(***************************************************************************)
(* File transfer: Ymodem::send                                             *)
(***************************************************************************)
SOH == 1
STX == 2
EOT == 4
ACK == 6
NAK == 21
EOF == 26
CRC == 67
\* Ymodem::new: retries: 10
InitRetries == 10
\* send: let mut buff = [0u8; 1024]
BufSize == 1024
\* send_blk: the two payload sizes and the limit between them
SmallLen == 128
BigLen == 1024

\* a source read one byte at a time, long enough for the counter to wrap
LongFile == 257
\* rejections the link produces during the transfer of the long source
LongRejects == 1
\* rejections the link produces during the transfer of the other sources
\* but the 5-byte one, whose link may use up the whole budget
FewRejects == 2
\* answer bytes of the receiver that may be in flight at once
MaxInFlight == 2

\* the bitwise exclusive or of two n-bit numbers
RECURSIVE XorBits(_, _, _)
XorBits(a, b, n) ==
    IF n = 0 THEN 0
    ELSE (((a % 2) + (b % 2)) % 2) + 2 * XorBits(a \div 2, b \div 2, n - 1)

Xor8Table == [a \in 0..255 |-> [b \in 0..255 |-> XorBits(a, b, 8)]]

\* CRC16-CCITT, polynomial 0x1021, one bit at a time, most significant first
RECURSIVE CrcShift(_, _)
CrcShift(crc, k) ==
    IF crc < 0 \/ k = 0 THEN crc
    ELSE CrcShift(IF crc >= 32768 THEN XorBits((crc * 2) % 65536, 4129, 16)
                  ELSE (crc * 2) % 65536, k - 1)

CrcTable == [i \in 0..255 |-> CrcShift(i * 256, 8)]

RECURSIVE CrcRange(_, _, _, _)
CrcRange(crc, buf, lo, hi) ==
    IF crc < 0 \/ lo > hi THEN crc
    ELSE IF lo = hi
    THEN LET t == CrcTable[Xor8Table[crc \div 256][buf[lo]]]
         IN  Xor8Table[crc % 256][t \div 256] * 256 + (t % 256)
    ELSE LET mid == (lo + hi) \div 2
         IN  CrcRange(CrcRange(crc, buf, lo, mid), buf, mid + 1, hi)

\* crate::crc::crc16_ccitt(seed, buf)
crc16_ccitt(seed, buf) == CrcRange(seed, buf, 1, Len(buf))

\* format!("{}", size): the decimal digits of size
RECURSIVE Decimal(_)
Decimal(n) ==
    IF n < 10 THEN <<48 + n>> ELSE Decimal(n \div 10) \o <<48 + (n % 10)>>

\* the i-th byte of the source, counted from 1
FileByte(i) == (i * 31 + 7) % 256

\* Sources: files whose reads fill the buffer, files read SmallLen and
\* SmallLen + 1 bytes at a time, a short file and a long file read one byte at a
\* time; rejects is what the link may still reject. For the linked source the
\* bytes read are the answers a receiver gave to the writes, in their order
Sources ==
    {[size |-> n, chunk |-> BufSize, rejects |-> FewRejects, linked |-> FALSE] :
        n \in {0, 1024, 2049}}
    \cup {[size |-> 2 * SmallLen + k, chunk |-> SmallLen + k, rejects |-> FewRejects,
           linked |-> FALSE] : k \in {0, 1}}
    \cup {[size |-> 5, chunk |-> BufSize, rejects |-> InitRetries, linked |-> FALSE],
          [size |-> 3, chunk |-> 1, rejects |-> FewRejects, linked |-> FALSE],
          [size |-> LongFile, chunk |-> 1, rejects |-> LongRejects, linked |-> FALSE],
          [size |-> 5, chunk |-> BufSize, rejects |-> FewRejects, linked |-> TRUE]}

\* bytes the receiver may send: ACK, NAK, 'C' and 'x'
RxBytes == {ACK, NAK, CRC, 120}

\* Ymodem::nak
Nak == IF crc_mode THEN CRC ELSE NAK

\* send_header: name, NUL, decimal size, NUL
HeaderData(name, size) == name \o <<0>> \o Decimal(size) \o <<0>>

\* a variant that numbers the last block like any other
SeqOfCounter(last) == blk

\* send_blk: let blk = if last { 0 } else { self.blk }
SeqOf(last) == IF last THEN 0 ELSE blk

\* a variant that takes the large class from SmallLen bytes on
SizeClassFromSmallLen(data) ==
    IF Len(data) >= SmallLen THEN [len |-> BigLen, p |-> STX]
    ELSE [len |-> SmallLen, p |-> SOH]

\* send_blk: the size class of the data
SizeClass(data) ==
    IF Len(data) > SmallLen THEN [len |-> BigLen, p |-> STX]
    ELSE [len |-> SmallLen, p |-> SOH]

\* send_blk is entered: its arguments and the locals computed before the loop
EnterSendBlk(kind, data, pad, last) ==
    [kind |-> kind, data |-> data, pad |-> pad, last |-> last,
     seq |-> SeqOf(last), p |-> SizeClass(data).p, len |-> SizeClass(data).len]

\* a variant that pads every block with EOF
PaddedWithEof(data, pad, len) ==
    [i \in 1..len |-> IF i <= Len(data) THEN data[i] ELSE EOF]

\* send_blk: vec![pad; len] with the data copied to its front
Padded(data, pad, len) ==
    [i \in 1..len |-> IF i <= Len(data) THEN data[i] ELSE pad]

\* a variant that writes the low byte of the CRC first
TrailerLowFirst(buf) ==
    IF crc_mode
    THEN LET chsum == crc16_ccitt(0, buf)
         IN  <<chsum % 256, chsum \div 256>>
    ELSE <<>>

\* send_blk: the two CRC bytes, high byte first, in CRC mode only
Trailer(buf) ==
    IF crc_mode
    THEN LET chsum == crc16_ccitt(0, buf)
         IN  <<chsum \div 256, chsum % 256>>
    ELSE <<>>

\* a variant that numbers each pass of the loop anew
BlockImageRenumbered(c) ==
    LET buf == Padded(c.data, c.pad, c.len)
        n == (c.seq + txOfCur) % 256
    IN  <<c.p, n, 255 - n>> \o buf \o Trailer(buf)

\* send_blk: the bytes one pass of the loop writes: [p, blk, !blk], buf, trailer
BlockImage(c) ==
    LET buf == Padded(c.data, c.pad, c.len)
    IN  <<c.p, c.seq, 255 - c.seq>> \o buf \o Trailer(buf)

\* a variant that wraps past 0
NextBlkSkipZero(b) == IF b = 255 THEN 1 ELSE b + 1

\* a variant that leaves the counter alone after the terminating block
NextBlkUnlessLast(b) ==
    IF cur.kind = "last" THEN b ELSE IF b = 255 THEN 0 ELSE b + 1

\* send_blk: the counter after an acknowledged block
NextBlk(b) == IF b = 255 THEN 0 ELSE b + 1

\* a variant that also takes the byte 'x' for an acknowledgement
IsAckOrNoise(c) == c \in {ACK, 120}

\* wait_ack: the byte that ends the wait with Ok
IsAck(c) == c = ACK

\* a variant that takes any byte for the start character
IsStartAny(c) == TRUE

\* wait_for_start: the bytes that end the wait: NAK and 'C'
IsStart(c) == c \in {NAK, CRC}

\* the receiver of a linked source answers what was just written, the block
\* numbered ord among the blocks begun (0 for the EOT): with nothing, ACK, NAK,
\* or ACK and 'C'; the bytes join those in flight, of which there are at most
\* MaxInFlight. The bytes of any other source are not tied to the writes
Answered(ord) ==
    IF src.linked
    THEN \E a \in {<<>>, <<ACK>>, <<NAK>>, <<ACK, CRC>>} :
            /\ Len(link) + Len(a) <= MaxInFlight
            /\ link' = link \o [i \in 1..Len(a) |-> [byte |-> a[i], ord |-> ord]]
    ELSE UNCHANGED link

\* getc returns the byte c: of a linked source, the oldest byte in flight
Takes(c) ==
    IF src.linked
    THEN /\ link # <<>>
         /\ Head(link).byte = c
         /\ link' = Tail(link)
    ELSE UNCHANGED link

\* a variant that hands over the size of the block alone
SendSizeOfBlock(n) == n

\* a variant that counts the padded block
SendSizePadded(n) == send_size + (IF n > SmallLen THEN BigLen ELSE SmallLen)

\* send: the cumulative count handed to on_progress after a data block of n bytes
SendSizeAfter(n) == send_size + n

InitYmodem ==
    /\ tx = "session"
    /\ rx = <<>>
    /\ perfix = <<>>
    /\ txOut = <<>>
    /\ spc = "ready"
    /\ tpc = "done"
    /\ ok = TRUE
    /\ history = <<>>
    /\ interrupt_line = INT
    /\ emitted = 0
    /\ firstTok = <<"none">>
    /\ linesRead = 0
    /\ readErr = <<"none">>
    /\ writesAtStop = 0
    /\ InitCmdIdle
    /\ crc_mode \in BOOLEAN
    /\ blk = 0
    /\ retries = InitRetries
    /\ ypc = "start"
    /\ cur = [kind |-> "none"]
    /\ err = <<"none">>
    /\ yresult = <<"none">>
    /\ src \in Sources
    /\ filePos = 0
    /\ send_size = 0
    /\ progCalls = 0
    /\ progLast = 0
    /\ wire = <<>>
    /\ first = <<>>
    /\ txCount = 0
    /\ txOfCur = 0
    /\ dataBlocks = 0
    /\ lastRead = <<>>
    /\ rejectsLeft = src.rejects
    /\ shortReads = FALSE
    /\ eots = 0
    /\ seqs = <<>>
    /\ link = <<>>
    /\ InitOpIdle

\* send: send_header builds the header data, for the name "a.bin", and calls
\* send_blk(buff, 0, false)
YmSendHeader ==
    /\ ypc = "start"
    /\ cur' = EnterSendBlk("header", HeaderData(<<97, 46, 98, 105, 110>>, src.size), 0, FALSE)
    /\ err' = <<"none">>
    /\ txOfCur' = 0
    /\ ypc' = "blk"
    /\ UNCHANGED <<crc_mode, blk, retries, yresult, src, filePos, send_size, progCalls,
                   progLast, wire, first, txCount, dataBlocks, lastRead, rejectsLeft,
                   shortReads, eots>>
    /\ UNCHANGED <<seqs, link, shellVars, syncVars, cmdVars, opVars, termVars>>

\* a variant that returns the same error whatever the last failure was
GiveUpErrorGeneric(e) == "retry too much"

\* send_blk: err.unwrap_or(Error::new(ErrorKind::BrokenPipe, "retry too much"))
GiveUpError(e) == IF e = <<"none">> THEN "retry too much" ELSE e[1]

\* send_blk: the loop finds retries == 0 and returns the last error
YmBlkGiveUp ==
    /\ ypc = "blk"
    /\ retries = 0
    /\ yresult' = <<"Err", GiveUpError(err)>>
    /\ ypc' = "failed"
    /\ UNCHANGED <<crc_mode, blk, retries, cur, err, src, filePos, send_size, progCalls,
                   progLast, wire, first, txCount, txOfCur, dataBlocks, lastRead,
                   rejectsLeft, shortReads, eots>>
    /\ UNCHANGED <<seqs, link, shellVars, syncVars, cmdVars, opVars, termVars>>

\* send_blk: one pass of the loop writes the block and flushes
YmBlkWrite ==
    /\ ypc = "blk"
    /\ retries > 0
    /\ wire' = BlockImage(cur)
    /\ first' = IF txOfCur = 0 THEN wire' ELSE first
    /\ txCount' = txCount + 1
    /\ txOfCur' = txOfCur + 1
    /\ seqs' = IF txOfCur = 0 THEN Append(seqs, wire'[2]) ELSE seqs
    /\ Answered(Len(seqs'))
    /\ lastRead' = <<>>
    /\ ypc' = "ack"
    /\ UNCHANGED <<crc_mode, blk, retries, cur, err, yresult, src, filePos, send_size,
                   progCalls, progLast, dataBlocks, rejectsLeft, shortReads, eots>>
    /\ UNCHANGED <<shellVars, syncVars, cmdVars, opVars, termVars>>

\* send_blk: a write fails and the error is returned at once
YmBlkWriteError ==
    /\ ypc = "blk"
    /\ retries > 0
    /\ yresult' = <<"Err", "write">>
    /\ ypc' = "failed"
    /\ UNCHANGED <<crc_mode, blk, retries, cur, err, src, filePos, send_size, progCalls,
                   progLast, wire, first, txCount, txOfCur, dataBlocks, lastRead,
                   rejectsLeft, shortReads, eots>>
    /\ UNCHANGED <<seqs, link, shellVars, syncVars, cmdVars, opVars, termVars>>

\* wait_ack reads ACK: send_blk advances the counter and returns Ok; send goes on
\* with the source after the header, reports progress after a data block and
\* waits for the start character after the last block
YmBlkAck ==
    /\ ypc = "ack"
    /\ \E c \in RxBytes :
        /\ IsAck(c)
        /\ lastRead' = <<c>>
        /\ Takes(c)
    /\ blk' = NextBlk(blk)
    /\ IF cur.kind = "data"
       THEN /\ send_size' = SendSizeAfter(Len(cur.data))
            /\ progCalls' = progCalls + 1
            /\ progLast' = send_size'
       ELSE UNCHANGED <<send_size, progCalls, progLast>>
    /\ ypc' = IF cur.kind = "last" THEN "final" ELSE "read"
    /\ UNCHANGED <<crc_mode, retries, cur, err, yresult, src, filePos, wire, first, txCount,
                   txOfCur, dataBlocks, rejectsLeft, shortReads, eots>>
    /\ UNCHANGED <<seqs, shellVars, syncVars, cmdVars, opVars, termVars>>

\* wait_ack reads the negative byte of the mode: send_blk counts it and loops
YmBlkNak ==
    /\ ypc = "ack"
    /\ rejectsLeft > 0
    /\ \E c \in RxBytes :
        /\ ~IsAck(c)
        /\ c = Nak
        /\ lastRead' = <<c>>
        /\ Takes(c)
    /\ err' = <<"NAK">>
    /\ retries' = retries - 1
    /\ rejectsLeft' = rejectsLeft - 1
    /\ ypc' = "blk"
    /\ UNCHANGED <<crc_mode, blk, cur, yresult, src, filePos, send_size, progCalls, progLast,
                   wire, first, txCount, txOfCur, dataBlocks, shortReads, eots>>
    /\ UNCHANGED <<seqs, shellVars, syncVars, cmdVars, opVars, termVars>>

\* a variant in which a failed read ends send_blk at once, like a failed write
YmBlkReadErrorAborts ==
    /\ ypc = "ack"
    /\ rejectsLeft > 0
    /\ lastRead' = <<>>
    /\ yresult' = <<"Err", "read">>
    /\ rejectsLeft' = rejectsLeft - 1
    /\ ypc' = "failed"
    /\ UNCHANGED <<crc_mode, blk, retries, cur, err, src, filePos, send_size, progCalls,
                   progLast, wire, first, txCount, txOfCur, dataBlocks, shortReads, eots>>
    /\ UNCHANGED <<seqs, link, shellVars, syncVars, cmdVars, opVars, termVars>>

\* wait_ack returns an error other than NAK: getc fails (read error or timeout), or
\* stdout().write_all(&[c])? fails on a byte that is neither ACK nor the negative
\* byte; send_blk counts either and loops
YmBlkReadError ==
    /\ ypc = "ack"
    /\ rejectsLeft > 0
    /\ \/ /\ lastRead' = <<>>
          /\ UNCHANGED link
          /\ err' = <<"read">>
       \/ \E c \in RxBytes :
            /\ ~IsAck(c)
            /\ c # Nak
            /\ lastRead' = <<c>>
            /\ Takes(c)
            /\ err' = <<"print">>
    /\ retries' = retries - 1
    /\ rejectsLeft' = rejectsLeft - 1
    /\ ypc' = "blk"
    /\ UNCHANGED <<crc_mode, blk, cur, yresult, src, filePos, send_size, progCalls, progLast,
                   wire, first, txCount, txOfCur, dataBlocks, shortReads, eots>>
    /\ UNCHANGED <<seqs, shellVars, syncVars, cmdVars, opVars, termVars>>

\* wait_ack reads any other byte: it is printed and the wait goes on
YmBlkOther ==
    /\ ypc = "ack"
    /\ \E c \in RxBytes :
        /\ ~IsAck(c)
        /\ c # Nak
        /\ lastRead' = <<c>>
        /\ Takes(c)
    /\ UNCHANGED <<crc_mode, blk, retries, ypc, cur, err, yresult, src, filePos, send_size,
                   progCalls, progLast, wire, first, txCount, txOfCur, dataBlocks,
                   rejectsLeft, shortReads, eots>>
    /\ UNCHANGED <<seqs, shellVars, syncVars, cmdVars, opVars, termVars>>

\* send: file.read(&mut buff) returns Ok(n); n == 0 ends the loop, otherwise
\* send_blk(&buff[..n], EOF, false) is called
YmReadFile ==
    /\ ypc = "read"
    /\ LET avail == src.size - filePos
           most == IF avail < BufSize THEN avail ELSE BufSize
           n == IF src.chunk < most THEN src.chunk ELSE most
       IN  /\ shortReads' = (shortReads \/ n < most)
           /\ filePos' = filePos + n
           /\ IF n = 0
              THEN /\ ypc' = "eot"
                   /\ UNCHANGED <<cur, err, txOfCur, dataBlocks>>
              ELSE /\ cur' = EnterSendBlk("data", [i \in 1..n |-> FileByte(filePos + i)],
                                          EOF, FALSE)
                   /\ err' = <<"none">>
                   /\ txOfCur' = 0
                   /\ dataBlocks' = dataBlocks + 1
                   /\ ypc' = "blk"
    /\ UNCHANGED <<crc_mode, blk, retries, yresult, src, send_size, progCalls, progLast,
                   wire, first, txCount, lastRead, rejectsLeft, eots>>
    /\ UNCHANGED <<seqs, link, shellVars, syncVars, cmdVars, opVars, termVars>>

\* send: file.read returns Err: the while-let loop ends
YmReadFileError ==
    /\ ypc = "read"
    /\ shortReads' = TRUE
    /\ ypc' = "eot"
    /\ UNCHANGED <<crc_mode, blk, retries, cur, err, yresult, src, filePos, send_size,
                   progCalls, progLast, wire, first, txCount, txOfCur, dataBlocks, lastRead,
                   rejectsLeft, eots>>
    /\ UNCHANGED <<seqs, link, shellVars, syncVars, cmdVars, opVars, termVars>>

\* send: dev.write_all(&[EOT]); dev.flush()
YmSendEot ==
    /\ ypc = "eot"
    /\ wire' = <<EOT>>
    /\ Answered(0)
    /\ eots' = eots + 1
    /\ lastRead' = <<>>
    /\ ypc' = "eot_ack"
    /\ UNCHANGED <<crc_mode, blk, retries, cur, err, yresult, src, filePos, send_size,
                   progCalls, progLast, first, txCount, txOfCur, dataBlocks, rejectsLeft,
                   shortReads>>
    /\ UNCHANGED <<seqs, shellVars, syncVars, cmdVars, opVars, termVars>>

\* send: writing the EOT fails
YmEotWriteError ==
    /\ ypc = "eot"
    /\ yresult' = <<"Err", "write">>
    /\ ypc' = "failed"
    /\ UNCHANGED <<crc_mode, blk, retries, cur, err, src, filePos, send_size, progCalls,
                   progLast, wire, first, txCount, txOfCur, dataBlocks, lastRead,
                   rejectsLeft, shortReads, eots>>
    /\ UNCHANGED <<seqs, link, shellVars, syncVars, cmdVars, opVars, termVars>>

\* send: wait_ack after the EOT reads ACK; send_blk(&[0], 0, true) is called
YmEotAck ==
    /\ ypc = "eot_ack"
    /\ \E c \in RxBytes :
        /\ IsAck(c)
        /\ lastRead' = <<c>>
        /\ Takes(c)
    /\ cur' = EnterSendBlk("last", <<0>>, 0, TRUE)
    /\ err' = <<"none">>
    /\ txOfCur' = 0
    /\ ypc' = "blk"
    /\ UNCHANGED <<crc_mode, blk, retries, yresult, src, filePos, send_size, progCalls,
                   progLast, wire, first, txCount, dataBlocks, rejectsLeft, shortReads, eots>>
    /\ UNCHANGED <<seqs, shellVars, syncVars, cmdVars, opVars, termVars>>

\* a variant in which a rejected EOT uses one retry and is written again
YmEotRejectedResends ==
    /\ ypc = "eot_ack"
    /\ rejectsLeft > 0
    /\ retries > 0
    /\ \E c \in RxBytes :
        /\ c = Nak
        /\ lastRead' = <<c>>
        /\ Takes(c)
    /\ retries' = retries - 1
    /\ rejectsLeft' = rejectsLeft - 1
    /\ ypc' = "eot"
    /\ UNCHANGED <<crc_mode, blk, cur, err, yresult, src, filePos, send_size, progCalls,
                   progLast, wire, first, txCount, txOfCur, dataBlocks, shortReads, eots>>
    /\ UNCHANGED <<seqs, shellVars, syncVars, cmdVars, opVars, termVars>>

\* send: wait_ack after the EOT reads the negative byte, fails to read, or fails to
\* print another byte: send returns the error
YmEotRejected ==
    /\ ypc = "eot_ack"
    /\ rejectsLeft > 0
    /\ \/ \E c \in RxBytes :
            /\ ~IsAck(c)
            /\ c = Nak
            /\ lastRead' = <<c>>
            /\ Takes(c)
            /\ yresult' = <<"Err", "NAK">>
       \/ /\ lastRead' = <<>>
          /\ UNCHANGED link
          /\ yresult' = <<"Err", "read">>
       \/ \E c \in RxBytes :
            /\ ~IsAck(c)
            /\ c # Nak
            /\ lastRead' = <<c>>
            /\ Takes(c)
            /\ yresult' = <<"Err", "print">>
    /\ rejectsLeft' = rejectsLeft - 1
    /\ ypc' = "failed"
    /\ UNCHANGED <<crc_mode, blk, retries, cur, err, src, filePos, send_size, progCalls,
                   progLast, wire, first, txCount, txOfCur, dataBlocks, shortReads, eots>>
    /\ UNCHANGED <<seqs, shellVars, syncVars, cmdVars, opVars, termVars>>

\* send: wait_ack after the EOT reads any other byte
YmEotOther ==
    /\ ypc = "eot_ack"
    /\ \E c \in RxBytes :
        /\ ~IsAck(c)
        /\ c # Nak
        /\ lastRead' = <<c>>
        /\ Takes(c)
    /\ UNCHANGED <<crc_mode, blk, retries, ypc, cur, err, yresult, src, filePos, send_size,
                   progCalls, progLast, wire, first, txCount, txOfCur, dataBlocks,
                   rejectsLeft, shortReads, eots>>
    /\ UNCHANGED <<seqs, shellVars, syncVars, cmdVars, opVars, termVars>>

\* send: wait_for_start reads NAK or 'C', sets the mode and send returns Ok
YmFinalStart ==
    /\ ypc = "final"
    /\ \E c \in RxBytes :
        /\ IsStart(c)
        /\ crc_mode' = (c = CRC)
        /\ lastRead' = <<c>>
        /\ Takes(c)
    /\ yresult' = <<"Ok">>
    /\ ypc' = "done"
    /\ UNCHANGED <<blk, retries, cur, err, src, filePos, send_size, progCalls, progLast, wire,
                   first, txCount, txOfCur, dataBlocks, rejectsLeft, shortReads, eots>>
    /\ UNCHANGED <<seqs, shellVars, syncVars, cmdVars, opVars, termVars>>

\* send: wait_for_start reads any other byte and goes on waiting
YmFinalOther ==
    /\ ypc = "final"
    /\ \E c \in RxBytes :
        /\ ~IsStart(c)
        /\ lastRead' = <<c>>
        /\ Takes(c)
    /\ UNCHANGED <<crc_mode, blk, retries, ypc, cur, err, yresult, src, filePos, send_size,
                   progCalls, progLast, wire, first, txCount, txOfCur, dataBlocks,
                   rejectsLeft, shortReads, eots>>
    /\ UNCHANGED <<seqs, shellVars, syncVars, cmdVars, opVars, termVars>>

\* send: wait_for_start: getc fails and send returns the error
YmFinalReadError ==
    /\ ypc = "final"
    /\ rejectsLeft > 0
    /\ rejectsLeft' = rejectsLeft - 1
    /\ lastRead' = <<>>
    /\ yresult' = <<"Err", "read">>
    /\ ypc' = "failed"
    /\ UNCHANGED <<crc_mode, blk, retries, cur, err, src, filePos, send_size, progCalls,
                   progLast, wire, first, txCount, txOfCur, dataBlocks, shortReads, eots>>
    /\ UNCHANGED <<seqs, link, shellVars, syncVars, cmdVars, opVars, termVars>>

NextYmodem ==
    \/ YmSendHeader
    \/ YmBlkGiveUp
    \/ YmBlkWrite
    \/ YmBlkWriteError
    \/ YmBlkAck
    \/ YmBlkNak
    \/ YmBlkReadError
    \/ YmBlkOther
    \/ YmReadFile
    \/ YmReadFileError
    \/ YmSendEot
    \/ YmEotWriteError
    \/ YmEotAck
    \/ YmEotRejected
    \/ YmEotOther
    \/ YmFinalStart
    \/ YmFinalOther
    \/ YmFinalReadError

SpecYmodem == InitYmodem /\ [][NextYmodem]_vars

\* send is called again on the Ymodem value whose budget a failed send used up;
\* send_size is a local of send and the source is read from its start
YmSendAgain ==
    /\ ypc = "failed"
    /\ retries = 0
    /\ ypc' = "start"
    /\ yresult' = <<"none">>
    /\ send_size' = 0
    /\ filePos' = 0
    /\ UNCHANGED <<crc_mode, blk, retries, cur, err, src, progCalls, progLast, wire, first,
                   txCount, txOfCur, dataBlocks, lastRead, rejectsLeft, shortReads, eots>>
    /\ UNCHANGED <<seqs, link, shellVars, syncVars, cmdVars, opVars, termVars>>

NextYmodemAgain ==
    \/ NextYmodem
    \/ YmSendAgain

\* the transfers of the 5-byte file, whose link may use up the whole budget
InitYmodemAgain == InitYmodem /\ src.size = 5

\* the same transfers with further calls of send once the budget is used up
SpecYmodemAgain == InitYmodemAgain /\ [][NextYmodemAgain]_vars

(***************************************************************************)
(* File loading: UbootShell::loady                                         *)
(***************************************************************************)
\* calls of loady() made on one session
MaxLoads == 1

\* {:x}
RECURSIVE LowerHex(_)
LowerHex(n) ==
    LET digit == IF n % 16 < 10 THEN 48 + (n % 16) ELSE 87 + (n % 16)
    IN  IF n < 16 THEN <<digit>> ELSE LowerHex(n \div 16) \o <<digit>>

\* a variant that sends the line the way cmd does, with the marker
LoadyCmdWithId(addr) == CmdWithId(LoadyWord \o <<48, 120>> \o LowerHex(addr))

\* format!("loady {:#x}", addr)
LoadyCmd(addr) == LoadyWord \o <<48, 120>> \o LowerHex(addr)

\* "try 'help'"
TryHelp == <<116, 114, 121, 32, 39, 104, 101, 108, 112, 39>>

\* "## Ready\r\nC": the receiver is ready and asks for CRC mode
ReadyC == <<35, 35, 32, 82, 101, 97, 100, 121, 13, NL, CRC>>

\* what the remote may answer to the line of loady: ready, the line echoed and
\* ready, "Unknown command 'loady' - try 'help'\n" and the prompt,
\* "Bad CRC - try 'help'\n" (the mode character in front of the failure text)
\* and the prompt, or NAK, the request for checksum mode
LoadyAnswers(line) ==
    { ReadyC,
      line \o ReadyC,
      <<85, 110, 107, 110, 111, 119, 110, 32, 99, 111, 109, 109, 97, 110, 100, 32, 39, 108,
        111, 97, 100, 121, 39, 32, 45, 32>> \o TryHelp \o <<NL>> \o prompt,
      <<66, 97, 100, 32, 67, 82, 67, 32, 45, 32>> \o TryHelp \o <<NL>> \o prompt,
      <<NAK>> }

\* a variant that never meets the failure text
NeverLoadFailure(text) == FALSE

\* wait_for_load_crc: res.contains("try 'help'")
IsLoadFailure(text) == Contains(text, TryHelp)

\* the Ymodem value p of loady is dropped; the session keeps nothing of it
YmDropped ==
    /\ crc_mode' = FALSE
    /\ blk' = 0
    /\ retries' = 0
    /\ ypc' = "idle"
    /\ cur' = [kind |-> "none"]
    /\ err' = <<"none">>
    /\ yresult' = <<"none">>
    /\ src' = [size |-> 0, chunk |-> 0, linked |-> FALSE]
    /\ filePos' = 0
    /\ send_size' = 0
    /\ progCalls' = 0
    /\ progLast' = 0
    /\ wire' = <<>>
    /\ first' = <<>>
    /\ txCount' = 0
    /\ txOfCur' = 0
    /\ dataBlocks' = 0
    /\ lastRead' = <<>>
    /\ rejectsLeft' = 0
    /\ shortReads' = FALSE
    /\ eots' = 0
    /\ seqs' = <<>>
    /\ link' = <<>>

\* loady(addr, file, on_progress) is called with 0x40080000 or 0xabc
LoadyCall ==
    /\ CanCall
    /\ loads < MaxLoads
    /\ \E a \in {1074266112, 2748} : laddr' = a
    /\ loads' = loads + 1
    /\ calls' = calls + 1
    /\ lpc' = "write"
    /\ lreply' = <<>>
    /\ lresult' = <<"none">>
    /\ lfinal' = <<"none">>
    /\ sent' = <<>>
    /\ reply' = <<>>
    /\ staleAtCall' = (pending # <<>> \/ rx # <<>>)
    /\ UNCHANGED <<shellVars, syncVars, ymVars, epc, eresult, pin, pout, termVars>>
    /\ UNCHANGED <<prompt, pending, remoteCap, remoteKinds, staleLines, cpc, cmd, retry,
                   lastErr, result, firstGot, allFail, readFails, writeFails, prevResult,
                   pendingAtCall, ownGot>>

\* loady: cmd_without_reply writes the line
LoadyWrite ==
    /\ lpc = "write"
    /\ sent' = Append(sent, CmdLine(LoadyCmd(laddr)))
    /\ pending' = IF Len(pending) < remoteCap
                  THEN Append(pending, CmdLine(LoadyCmd(laddr)))
                  ELSE pending
    /\ lpc' = "wait_crc"
    /\ UNCHANGED <<shellVars, syncVars, ymVars, epc, eresult, laddr, lreply, lresult,
                   lfinal, loads, pin, pout, termVars>>
    /\ UNCHANGED <<prompt, remoteCap, remoteKinds, staleLines, cpc, cmd, retry, reply,
                   lastErr, result, calls, firstGot, allFail, readFails, writeFails,
                   staleAtCall, prevResult, pendingAtCall, ownGot>>

\* loady: cmd_without_reply fails in its first write_all, with nothing written,
\* or in its second, with the command written and no line end behind it; loady
\* returns the error
LoadyWriteError ==
    /\ lpc = "write"
    /\ \E written \in {<<>>, AsBytes(LoadyCmd(laddr))} :
        sent' = IF written = <<>> THEN sent ELSE Append(sent, written)
    /\ lresult' = <<"Err", "write">>
    /\ lpc' = "idle"
    /\ UNCHANGED <<shellVars, syncVars, ymVars>>
    /\ UNCHANGED <<prompt, pending, remoteCap, remoteKinds, staleLines, cpc, cmd, retry, reply,
                   lastErr, result, calls, firstGot, allFail, readFails, writeFails,
                   staleAtCall, prevResult, pendingAtCall, ownGot>>
    /\ UNCHANGED <<epc, eresult, laddr, lreply, lfinal, loads, pin, pout, termVars>>

\* the remote answers the line of loady
RemoteLoadyAnswer ==
    /\ pending # <<>>
    /\ IsLoadyLine(Head(pending))
    /\ \E ans \in LoadyAnswers(Head(pending)) : rx' = rx \o ans
    /\ pending' = Tail(pending)
    /\ staleLines' = IF staleLines > 0 THEN staleLines - 1 ELSE 0
    /\ UNCHANGED <<tx, perfix, txOut, syncVars, ymVars, opVars, termVars>>
    /\ UNCHANGED <<prompt, remoteCap, remoteKinds, cpc, cmd, retry, reply, lastErr, result,
                   calls, sent, firstGot, allFail, readFails, writeFails, staleAtCall,
                   prevResult, pendingAtCall, ownGot>>

\* wait_for_load_crc: one byte is read; 'C' ends the wait with Ok(true), the
\* failure text with an error, anything else goes on
LoadyReadByte ==
    /\ lpc = "wait_crc"
    /\ rx # <<>>
    /\ lreply' = Append(lreply, Head(rx))
    /\ rx' = Tail(rx)
    /\ IF EndsWith(lreply', <<CRC>>)
       THEN /\ lpc' = "open"
            /\ UNCHANGED lresult
       ELSE IF IsLoadFailure(Lossy(lreply'))
       THEN /\ lresult' = <<"Err", "InvalidData", Lossy(lreply')>>
            /\ lpc' = "idle"
       ELSE UNCHANGED <<lpc, lresult>>
    /\ UNCHANGED <<tx, perfix, txOut, syncVars, cmdVars, ymVars>>
    /\ UNCHANGED <<epc, eresult, laddr, lfinal, loads, pin, pout, termVars>>

\* wait_for_load_crc: read_byte fails, with its deadline or with another error
LoadyReadError ==
    /\ lpc = "wait_crc"
    /\ rx = <<>>
    /\ \E kind \in {"timeout", "read"} : lresult' = <<"Err", kind>>
    /\ lpc' = "idle"
    /\ UNCHANGED <<shellVars, syncVars, cmdVars, ymVars>>
    /\ UNCHANGED <<epc, eresult, laddr, lreply, lfinal, loads, pin, pout, termVars>>

\* loady: the file has no name in UTF-8, or cannot be opened or measured
LoadyOpenError ==
    /\ lpc = "open"
    /\ \E kind \in {"InvalidInput", "open"} : lresult' = <<"Err", kind>>
    /\ lpc' = "idle"
    /\ UNCHANGED <<shellVars, syncVars, cmdVars, ymVars>>
    /\ UNCHANGED <<epc, eresult, laddr, lreply, lfinal, loads, pin, pout, termVars>>

\* loady: Ymodem::new(crc), the file is opened and send begins; what is still
\* buffered is read by the transfer, whose reads are drawn from RxBytes; the file
\* has 5 bytes
LoadySend ==
    /\ lpc = "open"
    /\ lpc' = "send"
    /\ rx' = <<>>
    /\ crc_mode' = TRUE
    /\ blk' = 0
    /\ retries' = InitRetries
    /\ ypc' = "start"
    /\ \E f \in {[size |-> 5, chunk |-> BufSize, rejects |-> InitRetries, linked |-> FALSE]} :
        /\ src' = f
        /\ rejectsLeft' = f.rejects
    /\ UNCHANGED <<cur, err, yresult, filePos, send_size, progCalls, progLast, wire, first,
                   txCount, txOfCur, dataBlocks, lastRead, shortReads, eots, seqs, link>>
    /\ UNCHANGED <<tx, perfix, txOut, syncVars, cmdVars>>
    /\ UNCHANGED <<epc, eresult, laddr, lreply, lresult, lfinal, loads, pin, pout, termVars>>

\* the remote has the whole file and prints its report,
\* "## Total Size = 5 Bytes\n" or nothing, and the prompt
RemoteLoadyDone ==
    /\ lpc \in {"send", "wait_prompt"}
    /\ ypc = "done"
    /\ lfinal = <<"none">>
    /\ \E text \in { <<35, 35, 32, 84, 111, 116, 97, 108, 32, 83, 105, 122, 101, 32, 61, 32,
                       53, 32, 66, 121, 116, 101, 115, NL>>,
                     <<>> } :
        /\ lfinal' = <<"text", text>>
        /\ rx' = rx \o text \o prompt
    /\ UNCHANGED <<tx, perfix, txOut, syncVars, cmdVars, ymVars>>
    /\ UNCHANGED <<epc, eresult, lpc, laddr, lreply, lresult, loads, pin, pout, termVars>>

\* loady: send returned an error and loady returns it
LoadySendFailed ==
    /\ lpc = "send"
    /\ ypc = "failed"
    /\ lresult' = <<"Err", yresult[2]>>
    /\ lpc' = "idle"
    /\ YmDropped
    /\ UNCHANGED <<shellVars, syncVars, cmdVars>>
    /\ UNCHANGED <<epc, eresult, laddr, lreply, lfinal, loads, pin, pout, termVars>>

\* loady: send returned Ok; wait_for_reply(&perfix) begins
LoadySendDone ==
    /\ lpc = "send"
    /\ ypc = "done"
    /\ lpc' = "wait_prompt"
    /\ reply' = <<>>
    /\ perfix' = ClonePerfix(perfix)
    /\ UNCHANGED <<tx, rx, txOut, syncVars, ymVars>>
    /\ UNCHANGED <<epc, eresult, laddr, lreply, lresult, lfinal, loads, pin, pout, termVars>>
    /\ UNCHANGED <<prompt, pending, remoteCap, remoteKinds, staleLines, cpc, cmd, retry,
                   lastErr, result, calls, sent, firstGot, allFail, readFails, writeFails,
                   staleAtCall, prevResult, pendingAtCall, ownGot>>

\* wait_for_reply: the buffered bytes are read; when reply ends with the prefix
\* loady returns the text
LoadyWaitPrompt ==
    /\ lpc = "wait_prompt"
    /\ rx # <<>>
    /\ LET n == ReadCount(reply, rx, AsBytes(perfix))
       IN  /\ reply' = reply \o SubSeq(rx, 1, n)
           /\ rx' = SubSeq(rx, n + 1, Len(rx))
    /\ IF EndsWith(reply', AsBytes(perfix))
       THEN /\ lresult' = <<"Ok", WaitForReplyText(reply')>>
            /\ lpc' = "idle"
            /\ YmDropped
       ELSE UNCHANGED <<lpc, lresult, ymVars>>
    /\ UNCHANGED <<tx, perfix, txOut, syncVars>>
    /\ UNCHANGED <<epc, eresult, laddr, lreply, lfinal, loads, pin, pout, termVars>>
    /\ UNCHANGED <<prompt, pending, remoteCap, remoteKinds, staleLines, cpc, cmd, retry,
                   lastErr, result, calls, sent, firstGot, allFail, readFails, writeFails,
                   staleAtCall, prevResult, pendingAtCall, ownGot>>

\* wait_for_reply: read_byte fails and loady returns the error
LoadyWaitError ==
    /\ lpc = "wait_prompt"
    /\ rx = <<>>
    /\ \E kind \in {"timeout", "read"} : lresult' = <<"Err", kind>>
    /\ lpc' = "idle"
    /\ YmDropped
    /\ UNCHANGED <<shellVars, syncVars, cmdVars>>
    /\ UNCHANGED <<epc, eresult, laddr, lreply, lfinal, loads, pin, pout, termVars>>

NextLoady ==
    \/ LoadyCall
    \/ LoadyWrite
    \/ LoadyWriteError
    \/ RemoteLoadyAnswer
    \/ LoadyReadByte
    \/ LoadyReadError
    \/ LoadyOpenError
    \/ LoadySend
    \/ NextYmodem
    \/ RemoteLoadyDone
    \/ LoadySendFailed
    \/ LoadySendDone
    \/ LoadyWaitPrompt
    \/ LoadyWaitError

\* a session whose remote prints "myprompt> " or "=>"
InitLoady ==
    InitSession({<<109, 121, 112, 114, 111, 109, 112, 116, 62, 32>>, <<61, 62>>},
                MaxPending, {})

SpecLoady == InitLoady /\ [][NextLoady]_vars

(***************************************************************************)
(* Serial terminal: SerialTerm::tx_work_async                              *)
(***************************************************************************)
\* key presses handled by one terminal session
MaxKeys == 3

\* the keys pressed: Ctrl+A, a, x, Ctrl+X, b, X, Enter and CapsLock
KeySet ==
    { [code |-> "Char", c |-> 97, ctrl |-> TRUE],
      [code |-> "Char", c |-> 97, ctrl |-> FALSE],
      [code |-> "Char", c |-> 120, ctrl |-> FALSE],
      [code |-> "Char", c |-> 120, ctrl |-> TRUE],
      [code |-> "Char", c |-> 98, ctrl |-> FALSE],
      [code |-> "Char", c |-> 88, ctrl |-> FALSE],
      [code |-> "Enter", c |-> 0, ctrl |-> FALSE],
      [code |-> "CapsLock", c |-> 0, ctrl |-> FALSE] }

\* key.code == KeyCode::Char(c)
IsChar(k, c) == k.code = "Char" /\ k.c = c

\* handle_character_key: Ctrl with a letter gives the letter's control code
CharBytes(k) ==
    IF k.ctrl
    THEN IF k.c \in 97..122 THEN <<(k.c - 97) + 1>>
         ELSE IF k.c \in 65..90 THEN <<(k.c - 65) + 1>>
         ELSE <<k.c>>
    ELSE <<k.c>>

\* send_key_to_serial: the bytes of a key; a key without bytes writes nothing
KeyBytes(k) ==
    CASE k.code = "Char" -> CharBytes(k)
      [] k.code = "Enter" -> <<13>>
      [] OTHER -> <<>>

\* tx_work_async: one key press arrives and is handled; w1 and w2 tell whether
\* the write of Ctrl+A and the write of the key go through. In state
\* CtrlAPressed the key a, with or without Ctrl, writes nothing and leaves the
\* state as it is (key.code != KeyCode::Char('a') fails)
TermKey ==
    /\ kpc = "await"
    /\ Len(keys) < MaxKeys
    /\ \E k \in KeySet, w1, w2 \in BOOLEAN :
        /\ keys' = Append(keys, k)
        /\ IF key_state = "Normal"
           THEN IF IsChar(k, 97) /\ k.ctrl
                THEN /\ w1 /\ w2
                     /\ key_state' = "CtrlAPressed"
                     /\ UNCHANGED <<serial, sendFailed, is_running>>
                ELSE /\ w1
                     /\ serial' = serial \o (IF w2 THEN KeyBytes(k) ELSE <<>>)
                     /\ sendFailed' = (sendFailed \/ (KeyBytes(k) # <<>> /\ ~w2))
                     /\ UNCHANGED <<key_state, is_running>>
           ELSE IF IsChar(k, 120)
                THEN /\ w1 /\ w2
                     /\ is_running' = FALSE
                     /\ UNCHANGED <<key_state, serial, sendFailed>>
                ELSE IF ~IsChar(k, 97)
                THEN /\ serial' = serial \o (IF w1 THEN <<1>> ELSE <<>>)
                                          \o (IF w2 THEN KeyBytes(k) ELSE <<>>)
                     /\ sendFailed' = (sendFailed \/ ~w1 \/ (KeyBytes(k) # <<>> /\ ~w2))
                     /\ key_state' = "Normal"
                     /\ UNCHANGED is_running
                ELSE /\ w1 /\ w2
                     /\ UNCHANGED <<key_state, serial, sendFailed, is_running>>
    /\ kpc' = IF is_running' THEN "await" ELSE "done"
    /\ UNCHANGED <<shellVars, syncVars, cmdVars, ymVars, opVars>>

\* tx_work_async: the event stream ends or fails, and the loop breaks
TermEventEnd ==
    /\ kpc = "await"
    /\ kpc' = "done"
    /\ UNCHANGED <<key_state, is_running, serial, keys, sendFailed>>
    /\ UNCHANGED <<shellVars, syncVars, cmdVars, ymVars, opVars>>

\* the line callback calls TermHandle::stop
TermStop ==
    /\ is_running
    /\ is_running' = FALSE
    /\ UNCHANGED <<kpc, key_state, serial, keys, sendFailed>>
    /\ UNCHANGED <<shellVars, syncVars, cmdVars, ymVars, opVars>>

\* handle_serial_receive has left its loop and aborts the keyboard task
TermAbort ==
    /\ ~is_running
    /\ kpc = "await"
    /\ kpc' = "done"
    /\ UNCHANGED <<key_state, is_running, serial, keys, sendFailed>>
    /\ UNCHANGED <<shellVars, syncVars, cmdVars, ymVars, opVars>>

NextTerm ==
    \/ TermKey
    \/ TermEventEnd
    \/ TermStop
    \/ TermAbort

\* run_terminal has set is_running and spawned the keyboard task
InitTerm ==
    /\ tx = "session"
    /\ rx = <<>>
    /\ perfix = <<>>
    /\ txOut = <<>>
    /\ spc = "ready"
    /\ tpc = "done"
    /\ ok = TRUE
    /\ history = <<>>
    /\ interrupt_line = INT
    /\ emitted = 0
    /\ firstTok = <<"none">>
    /\ linesRead = 0
    /\ readErr = <<"none">>
    /\ writesAtStop = 0
    /\ InitCmdIdle
    /\ InitYmIdle
    /\ epc = "idle"
    /\ eresult = <<"none">>
    /\ lpc = "idle"
    /\ laddr = 0
    /\ lreply = <<>>
    /\ lresult = <<"none">>
    /\ lfinal = <<"none">>
    /\ loads = 0
    /\ pin = <<>>
    /\ pout = <<"none">>
    /\ kpc = "await"
    /\ key_state = "Normal"
    /\ is_running = TRUE
    /\ serial = <<>>
    /\ keys = <<>>
    /\ sendFailed = FALSE

SpecTerm == InitTerm /\ [][NextTerm]_vars

(***************************************************************************)
(* Properties of cmd                                                       *)
(***************************************************************************)
\* "&& echo cmd-ok\n"
MarkerTail == <<38, 38, 32, 101, 99, 104, 111, 32, 99, 109, 100, 45, 111, 107, 10>>

\* "myprompt> "
MyPrompt == <<109, 121, 112, 114, 111, 109, 112, 116, 62, 32>>

\* the running (or last) call met only replies that reach the prefix without the
\* marker in front of it, on a channel that neither failed nor timed out, and
\* began with nothing left over from an earlier call
OnlyMarkerlessReplies ==
    /\ calls > 0
    /\ allFail
    /\ readFails = 0
    /\ writeFails = 0
    /\ ~staleAtCall

\* C1: when the reply to every attempt reaches the prompt-prefix without the marker
\* cmd-ok in front of it, cmd(c) writes the line c ++ "&& echo cmd-ok\n" exactly
\* 3 times and then returns an error: never a 4th line, never Ok
C1_ThreeAttemptsThenError ==
    OnlyMarkerlessReplies =>
        /\ Len(sent) <= 3
        /\ \A i \in 1..Len(sent) : sent[i] = cmd \o MarkerTail
        /\ result[1] # "Ok"
        /\ (cpc = "idle" => result[1] = "Err" /\ Len(sent) = 3)

\* C1 witness: a call returned an error after three markerless replies
C1_Witness ==
    /\ OnlyMarkerlessReplies
    /\ prompt = MyPrompt
    /\ cpc = "idle"
    /\ result[1] = "Err"
    /\ Len(sent) = 3
    /\ lastErr[1] = "failed"

\* the first attempt of the call received a reply with the marker line in front
\* of the prompt, whose bytes are those of the captured prefix
FirstReplyHasMarker ==
    /\ firstGot[1] = "reply"
    /\ firstGot[2].marker
    /\ readFails = 0
    /\ writeFails = 0
    /\ AsBytes(perfix) = prompt

\* what the call must do then: one line written, no error, Ok(trimmed out)
ReturnsTrimmedOut ==
    /\ Len(sent) = 1
    /\ result[1] # "Err"
    /\ (cpc = "idle" => result = <<"Ok", Trim(Lossy(firstGot[2].out))>>)

\* C2 as stated: for every prefix P and every out, the reply (echo), out, cmd-ok,
\* P to the first attempt makes cmd(c) return Ok(trimmed out) after one line
C2_AsStated == FirstReplyHasMarker => ReturnsTrimmedOut

\* C2: the same when moreover P is not empty and occurs in the reply only at its
\* end, out does not end with the text cmd-ok, and out does not begin with the
\* command line c ++ "&& echo cmd-ok"
C2_OkAfterOneAttempt ==
    ( /\ FirstReplyHasMarker
      /\ prompt # <<>>
      /\ FrontOf(ReplyBytes(firstGot[2], sent[1]), prompt) = ReplyFront(firstGot[2], sent[1])
      /\ ~EndsWith(Trim(Lossy(firstGot[2].out)), ok_str)
      /\ ~StartsWith(TrimStart(Lossy(firstGot[2].out)), SubSeq(sent[1], 1, Len(sent[1]) - 1)) )
    => ReturnsTrimmedOut

\* C2 witness: "hi\ncmd-ok\nmyprompt> " answered "echo hi&& echo cmd-ok\n" and
\* cmd returned Ok("hi") after one line
C2_Witness ==
    /\ prompt = MyPrompt
    /\ firstGot = <<"reply", [echo |-> FALSE, out |-> <<104, 105, 10>>, marker |-> TRUE]>>
    /\ readFails = 0
    /\ writeFails = 0
    /\ cpc = "idle"
    /\ sent = << <<101, 99, 104, 111, 32, 104, 105>> \o MarkerTail >>
    /\ result = <<"Ok", <<104, 105>> >>

(***************************************************************************)
(* Properties of new                                                       *)
(***************************************************************************)
\* the text a session must capture for the bytes in front of the token: ASCII
\* stays, the byte 0xFF becomes U+FFFD
ExpectedPrefix(pre) ==
    IF pre = <<255, 61, 62, 32>> THEN <<65533, 61, 62, 32>> ELSE pre

\* C3: session creation discards every line that does not end, trailing blanks
\* trimmed, with <INTERRUPT>, succeeds on the first line that does, and the
\* captured prefix is the text of that line in front of the token and nothing else
C3_PrefixOfFirstTokenLine ==
    /\ (spc = "wfi_read" /\ firstTok[1] = "tok" => linesRead < firstTok[3])
    /\ (spc \in {"wfi_join", "ready"} => firstTok[1] = "tok" /\ linesRead = firstTok[3])
    /\ (spc = "ready" => perfix = ExpectedPrefix(firstTok[2]))

\* C3 witness: "myprompt> <INTERRUPT>\n" arrived as the second line after 3
\* interrupt bytes and the session holds the prefix "myprompt> "
C3_Witness ==
    /\ spc = "ready"
    /\ perfix = MyPrompt
    /\ txOut = << <<3>>, <<3>>, <<3>> >>
    /\ linesRead = 2
    /\ firstTok = <<"tok", MyPrompt, 2>>

\* C4 as stated: whenever new() has returned, with a session or with an I/O
\* error, the interrupt sender has stopped
C4_SenderStoppedAtReturn ==
    spc \in {"ready", "failed"} => tpc = "done"

(***************************************************************************)
(* Properties of send                                                      *)
(***************************************************************************)
\* the link rejected nothing so far and every read of the source filled the buffer
AllAcknowledgedFullReads ==
    /\ ypc # "idle"
    /\ rejectsLeft = src.rejects
    /\ src.chunk = 1024
    /\ ~shortReads

\* C5: with every block acknowledged and a source of n bytes read in full
\* 1024-byte reads, 2 + ceil(n/1024) blocks are on the wire once the terminating
\* block is acknowledged, and the last progress value is n
C5_BlockCountAndProgress ==
    (AllAcknowledgedFullReads /\ ypc \in {"final", "done"}) =>
        /\ txCount = 2 + ((src.size + 1023) \div 1024)
        /\ progCalls = (src.size + 1023) \div 1024
        /\ (progCalls > 0 => progLast = src.size)

\* C5 witness: the 5-byte file went out in 3 blocks and the last progress value is 5
C5_Witness ==
    /\ AllAcknowledgedFullReads
    /\ ypc = "done"
    /\ yresult = <<"Ok">>
    /\ src.size = 5
    /\ txCount = 3
    /\ progCalls = 1
    /\ progLast = 5

\* C6: the header carries sequence number 0, the k-th data block k (k < 256),
\* the terminating block 0, and a retransmission the number of the first
\* transmission of its block
C6_SequenceNumbers ==
    /\ \A i \in 1..Len(seqs) :
          IF i = 1 \/ (i = Len(seqs) /\ cur.kind = "last" /\ txOfCur > 0)
          THEN seqs[i] = 0
          ELSE i - 1 < 256 => seqs[i] = i - 1
    /\ (ypc = "ack" => wire[2] = seqs[Len(seqs)])

\* C6 witness: a transfer of 3 data blocks, one of them sent twice, ended with
\* the numbers 0, 1, 2, 3, 0 on the wire
C6_Witness ==
    /\ ypc = "done"
    /\ seqs = <<0, 1, 2, 3, 0>>
    /\ txCount = 6

\* C7 as stated: no data block is ever sent with sequence number 0
C7_AsStated ==
    (ypc = "ack" /\ cur.kind = "data") => wire[2] # 0

\* C7: the k-th data block carries k mod 256: a data block carries sequence
\* number 0 exactly when its index is a multiple of 256, so never among the
\* first 255 data blocks
C7_DataBlockZeroOnlyOnWrap ==
    (ypc = "ack" /\ cur.kind = "data") =>
        /\ wire[2] = dataBlocks % 256
        /\ (wire[2] = 0 <=> dataBlocks % 256 = 0)
        /\ (dataBlocks < 256 => wire[2] # 0)

\* C7 witness: the 256th data block is on the wire with sequence number 0
C7_Witness ==
    /\ ypc = "ack"
    /\ cur.kind = "data"
    /\ dataBlocks = 256
    /\ wire[2] = 0
    /\ wire[3] = 255

\* C8: a block that follows another, and the EOT, is written only when the last
\* byte read from the device is ACK
C8_StopAndWait ==
    [][ ( /\ txCount > 0
          /\ \/ (txCount' = txCount + 1 /\ txOfCur' = 1)
             \/ eots' = eots + 1 )
        => lastRead = <<6>> ]_vars

\* C8 witness: the first data block is on the wire, after the header was
\* acknowledged
C8_Witness ==
    /\ ypc = "ack"
    /\ cur.kind = "data"
    /\ txOfCur = 1
    /\ dataBlocks = 1
    /\ txCount > 1

\* C9: every retransmission of a block is the byte image of its first transmission
C9_IdenticalRetransmission ==
    ypc = "ack" => wire = first

\* C9 witness: a 1024-byte block in CRC mode is on the wire for the third time
C9_Witness ==
    /\ ypc = "ack"
    /\ crc_mode
    /\ cur.kind = "data"
    /\ txOfCur = 3
    /\ Len(wire) = 3 + 1024 + 2
    /\ wire[1] = 2
    /\ wire = first

\* C10 as stated: the transfer gives up on a block only after 10 transmissions
\* of that block, whatever earlier blocks went through
C10_BudgetPerBlock ==
    (ypc = "failed" /\ retries = 0) => txOfCur = 10

C13_TransferOrder ==
    [][ /\ (txCount' = txCount + 1 /\ cur.kind = "header") =>
               (txCount = txOfCur /\ dataBlocks = 0 /\ eots = 0)
        /\ (txCount' = txCount + 1 /\ cur.kind = "data") =>
               /\ txCount > 0
               /\ eots = 0
               /\ cur.data = [i \in 1..Len(cur.data) |-> FileByte(send_size + i)]
        /\ (eots' = eots + 1) =>
               /\ eots = 0
               /\ cur.kind \in {"header", "data"}
               /\ lastRead = <<6>>
               /\ send_size = filePos
        /\ (txCount' = txCount + 1 /\ cur.kind = "last") =>
               /\ eots = 1
               /\ (txOfCur = 0 => lastRead = <<6>>)
        /\ (yresult' = <<"Ok">> /\ yresult # <<"Ok">>) =>
               /\ ypc = "final"
               /\ cur.kind = "last"
               /\ txOfCur > 0
               /\ lastRead' \in {<<67>>, <<21>>} ]_vars

\* C13 witness: a transfer of 3 data blocks returned Ok after the receiver sent 'C'
C13_Witness ==
    /\ ypc = "done"
    /\ yresult = <<"Ok">>
    /\ dataBlocks = 3
    /\ send_size = 2049
    /\ eots = 1
    /\ cur.kind = "last"
    /\ lastRead = <<67>>

(***************************************************************************)
(* Properties of cmd after a failed call                                   *)
(***************************************************************************)
\* a call that followed a failed one has returned, and the reply to its first
\* line, emitted during its first attempt, carries the marker in front of the prompt
FollowsFailure ==
    /\ prevResult = "Err"
    /\ ownGot[1] = "reply"
    /\ ownGot[2].marker

EchoBootargsLine ==
    <<101, 99, 104, 111, 32, 36, 98, 111, 111, 116, 97, 114, 103, 115>> \o MarkerTail

\* "console=ttyS0"
ConsoleText == <<99, 111, 110, 115, 111, 108, 101, 61, 116, 116, 121, 83, 48>>

\* the reply "\nconsole=ttyS0\n", then the marker line when marked, then the prompt
ConsoleReply(marked) ==
    [echo |-> FALSE, out |-> <<10>> \o ConsoleText \o <<10>>, marker |-> marked]

\* the last env() call met a channel that neither failed nor timed out
CleanChannel ==
    /\ readFails = 0
    /\ writeFails = 0

\* l is the last line of s that is not blank
IsLastNonBlankLine(l, s) ==
    \E i \in 1..Len(s) : \E j \in i..Len(s) :
        /\ l = SubSeq(s, i, j)
        /\ \A n \in i..j : s[n] # 10
        /\ i = 1 \/ s[i - 1] = 10
        /\ j = Len(s) \/ s[j + 1] = 10
        /\ \E n \in i..j : ~IsWhitespace(s[n])
        /\ \A n \in (j + 1)..Len(s) : IsWhitespace(s[n])

\* C16 as stated: env(name) sends `echo $name`, and when every reply is
\* "\nconsole=ttyS0\nmyprompt> " it returns Ok("console=ttyS0")
C16_AsStated ==
    ( /\ eresult[1] = "env"
      /\ firstGot = <<"reply", ConsoleReply(FALSE)>>
      /\ allFail
      /\ CleanChannel )
    => eresult = <<"env", "Ok", ConsoleText>>

\* C16: env(name) sends `echo $name&& echo cmd-ok` through cmd. When cmd returns
\* Ok(s), env returns the last line of s that is not blank, and an error of kind
\* NotFound when s has no such line; an error of cmd is returned as it is. On
\* the reply "\nconsole=ttyS0\ncmd-ok\nmyprompt> " env returns Ok("console=ttyS0"),
\* on "cmd-ok\nmyprompt> " NotFound, and on replies "\nconsole=ttyS0\nmyprompt> ",
\* which lack the marker, the error of cmd after three attempts
C16_EnvLastLine ==
    eresult[1] = "env" =>
        /\ \A i \in 1..Len(sent) : sent[i] = EchoBootargsLine
        /\ result[1] = "Err" => eresult = <<"env">> \o result
        /\ result[1] = "Ok" =>
            IF \A n \in 1..Len(result[2]) : IsWhitespace(result[2][n])
            THEN eresult = <<"env", "Err", "NotFound">>
            ELSE eresult[2] = "Ok" /\ IsLastNonBlankLine(eresult[3], result[2])
        /\ (firstGot = <<"reply", ConsoleReply(TRUE)>> /\ CleanChannel)
            => eresult = <<"env", "Ok", ConsoleText>>
        /\ (firstGot = <<"reply", [echo |-> FALSE, out |-> <<>>, marker |-> TRUE]>> /\ CleanChannel)
            => eresult = <<"env", "Err", "NotFound">>
        /\ (firstGot = <<"reply", ConsoleReply(FALSE)>> /\ allFail /\ CleanChannel)
            => (eresult[2] = "Err" /\ eresult[3] # "NotFound" /\ Len(sent) = 3)

\* C16 witness: env read "\nconsole=ttyS0\ncmd-ok\nmyprompt> " and returned
\* Ok("console=ttyS0")
C16_Witness ==
    /\ eresult = <<"env", "Ok", ConsoleText>>
    /\ firstGot = <<"reply", ConsoleReply(TRUE)>>
    /\ CleanChannel
    /\ sent = <<EchoBootargsLine>>
    /\ epc = "idle"

\* s is a run of one or more decimal digits
IsDecimalText(s) == s # <<>> /\ \A i \in 1..Len(s) : s[i] \in 48..57

\* s is a run of one or more hexadecimal digits
IsHexText(s) ==
    s # <<>> /\ \A i \in 1..Len(s) : s[i] \in (48..57) \cup (97..102) \cup (65..70)

\* the number the digits d denote in the radix, from the last digit upwards
RECURSIVE NumberOf(_, _)
NumberOf(d, radix) ==
    IF d = <<>> THEN 0
    ELSE (CASE d[Len(d)] \in 48..57 -> d[Len(d)] - 48
            [] d[Len(d)] \in 97..102 -> d[Len(d)] - 97 + 10
            [] d[Len(d)] \in 65..70 -> d[Len(d)] - 65 + 10)
         + radix * NumberOf(SubSeq(d, 1, Len(d) - 1), radix)

\* the line without the blanks around it, the prefix 0x and one sign '+'
DigitsOf(line) ==
    LET t == Trim(line)
        body == IF StartsWith(t, <<48, 120>>) THEN SubSeq(t, 3, Len(t)) ELSE t
    IN  IF body # <<>> /\ body[1] = 43 THEN Tail(body) ELSE body

\* C17 as stated: parse_int returns the value of every decimal string and of every
\* string 0x followed by hex digits, and env_int returns that value
C17_AsStated ==
    pout # <<"none">> =>
        /\ IsDecimalText(pin) => pout[1] = "Ok"
        /\ (StartsWith(pin, <<48, 120>>) /\ IsHexText(SubSeq(pin, 3, Len(pin)))) => pout[1] = "Ok"

\* C17: parse_int drops the blanks around the line; what is left is a number
\* when it is decimal digits, or 0x followed by hexadecimal digits of either case,
\* with one sign '+' allowed in front of the digits, and the value is below two
\* to the 64th. env_int returns the value of a number and an error of kind
\* InvalidData for every other line, a number of 2^64 or more included
C17_ParseInt ==
    pout # <<"none">> =>
        LET d == DigitsOf(pin)
            radix == IF StartsWith(Trim(pin), <<48, 120>>) THEN 16 ELSE 10
            number == (IF radix = 16 THEN IsHexText(d) ELSE IsDecimalText(d))
                      /\ ~ExceedsU64(d, radix)
        IN  /\ number => pout = <<"Ok", NumberOf(StripZeros(d), radix)>>
            /\ ~number => pout = <<"Err", "InvalidData">>
            /\ (IsDecimalText(pin) /\ Len(pin) <= MaxText) => pout = <<"Ok", NumberOf(pin, 10)>>
            /\ (pin = <<48, 120, 97>>) => pout = <<"Ok", 10>>

\* C17 witness: env_int made 31 of "0x00000000000000001f"
C17_Witness ==
    /\ pin = <<48, 120>> \o [i \in 1..16 |-> 48] \o <<49, 102>>
    /\ pout = <<"Ok", 31>>

(***************************************************************************)
(* Properties of loady                                                     *)
(***************************************************************************)
\* the last byte wait_for_load_crc has read, 0 when it has read none
LastLoadByte == IF lreply = <<>> THEN 0 ELSE lreply[Len(lreply)]

\* C12: before the first byte of the header block is written the transfer has
\* read a start character: 'C' (0x43) selects CRC mode and NAK (0x15) selects
\* plain mode, so that the wait for the start character is over once either is
\* read, and the mode is the same for every block of the transfer
C12_StartCharacterSelectsMode ==
    /\ (txCount > 0 /\ ypc # "done") =>
           (LastLoadByte \in {67, 21} /\ crc_mode = (LastLoadByte = 67))
    /\ lpc = "wait_crc" => LastLoadByte \notin {67, 21}

\* "Unknown command 'loady' - try 'help'"
UnknownCommandText ==
    <<85, 110, 107, 110, 111, 119, 110, 32, 99, 111, 109, 109, 97, 110, 100, 32, 39, 108,
      111, 97, 100, 121, 39, 32, 45, 32, 116, 114, 121, 32, 39, 104, 101, 108, 112, 39>>

\* no block and no EOT was written and no transfer is running
NoTransfer ==
    /\ ypc = "idle"
    /\ txCount = 0
    /\ eots = 0
    /\ wire = <<>>

ExpectedLoadyLine ==
    IF laddr = 1074266112
    THEN <<108, 111, 97, 100, 121, 32, 48, 120, 52, 48, 48, 56, 48, 48, 48, 48, 10>>
    ELSE <<108, 111, 97, 100, 121, 32, 48, 120, 97, 98, 99, 10>>

\* "## Total Size = 5 Bytes"
TotalSizeText ==
    <<35, 35, 32, 84, 111, 116, 97, 108, 32, 83, 105, 122, 101, 32, 61, 32, 53, 32, 66,
      121, 116, 101, 115>>

\* what loady has written and read so far fits its order: the line first and
\* once, then the mode character, then blocks
LoadyOrder ==
    /\ lpc \in {"wait_crc", "open", "send", "wait_prompt"} => sent = <<ExpectedLoadyLine>>
    /\ txCount > 0 =>
        (sent = <<ExpectedLoadyLine>> /\ LastLoadByte = 67 /\ lpc \in {"send", "wait_prompt"})
    /\ (lresult[1] = "Ok" /\ ~staleAtCall) =>
        /\ lfinal[1] = "text"
        /\ lresult[2] = IF Trim(perfix) = perfix
                        THEN TrimStart(Lossy(lfinal[2]))
                        ELSE Trim(Lossy(lfinal[2] \o prompt))

\* loady returns Ok only from the wait for the prompt-prefix that follows a
\* complete transfer
LoadyReturnsOk ==
    (lresult'[1] = "Ok" /\ lresult[1] # "Ok") =>
        /\ lpc = "wait_prompt"
        /\ ypc = "done"
        /\ yresult = <<"Ok">>
        /\ eots = 1
        /\ cur.kind = "last"
        /\ reply' # <<>>
        /\ EndsWith(reply', AsBytes(perfix))

\* C19: loady writes the line `loady 0x<address in hex>` without the marker as
\* its first output, writes no block before it has read the mode character, and
\* returns Ok only after the transfer completed and the prompt-prefix was read
\* again; its result is the text received after the transfer
C19_LoadyOrder == []LoadyOrder /\ [][LoadyReturnsOk]_vars

\* C19 witness: loady(0x40080000) returned the report of the remote
C19_Witness ==
    /\ laddr = 1074266112
    /\ sent = << <<108, 111, 97, 100, 121, 32, 48, 120, 52, 48, 48, 56, 48, 48, 48, 48, 10>> >>
    /\ prompt = <<61, 62>>
    /\ lresult = <<"Ok", TotalSizeText \o <<10>> >>
    /\ lpc = "idle"

\* C14: no step of cmd, cmd_without_reply, wait_for_reply or loady, successful
\* or failed, changes the prompt-prefix captured at session creation
C14_PrefixNeverChanges == [][perfix' = perfix]_vars

\* C14 witness: loady has run a transfer and returned, and the prefix is still
\* the "myprompt> " captured from the prompt
C14_Witness ==
    /\ perfix = <<109, 121, 112, 114, 111, 109, 112, 116, 62, 32>>
    /\ prompt = <<109, 121, 112, 114, 111, 109, 112, 116, 62, 32>>
    /\ lpc = "idle"
    /\ lresult = <<"Ok", TotalSizeText \o <<10, 109, 121, 112, 114, 111, 109, 112, 116, 62>> >>

(***************************************************************************)
(* Properties of the reads of synchronization                              *)
(***************************************************************************)
\* a timeout of read_byte leaves the wait for the token as it is
TimeoutContinues ==
    (readErr' # readErr /\ readErr' = <<"TimedOut">>)
    => /\ spc = "wfi_read"
       /\ spc' = "wfi_read"
       /\ UNCHANGED <<shellVars, tpc, ok, history, interrupt_line, linesRead>>

\* any other error of read_byte ends the wait
OtherErrorFails ==
    (spc = "wfi_read" /\ readErr' # readErr /\ readErr' # <<"TimedOut">>) => spc' = "failed"

CmdWithoutReplyReturns == lpc = "write" /\ lpc' # "write"

\* what cmd_without_reply leaves alone: the read half, the prompt-prefix, the
\* owner of the write half, and the bytes read so far
CmdWithoutReplyFrame ==
    /\ rx' = rx
    /\ perfix' = perfix
    /\ tx' = tx
    /\ reply' = reply
    /\ lreply' = lreply

\* cmd_without_reply(c) returned Ok: one line was written, c and "\n"
WroteLine ==
    /\ lpc' = "wait_crc"
    /\ lresult' = lresult
    /\ Len(sent') = Len(sent) + 1
    /\ LET line == sent'[Len(sent')]
       IN  /\ Len(line) = Len(LoadyCmd(laddr)) + 1
           /\ SubSeq(line, 1, Len(line) - 1) = LoadyCmd(laddr)
           /\ line[Len(line)] = 10
           /\ ~Contains(line, ok_str)

\* cmd_without_reply(c) returned an error: it is a write error, loady returns it,
\* and no line end was written
WriteFailed ==
    /\ lpc' = "idle"
    /\ lresult' = <<"Err", "write">>
    /\ pending' = pending
    /\ \/ sent' = sent
       \/ sent' = Append(sent, LoadyCmd(laddr))

\* C21: cmd_without_reply(c) writes exactly the bytes of c followed by one
\* newline, appends no success marker, reads nothing from the read half and
\* leaves the prompt-prefix unchanged; it fails only with a write error
C21_CmdWithoutReply ==
    [][CmdWithoutReplyReturns => (CmdWithoutReplyFrame /\ (WroteLine \/ WriteFailed))]_vars

\* C21 witness: loady(0xabc) has written "loady 0xabc\n" while bytes of the
\* remote were absent, and waits for the mode character
C21_Witness ==
    /\ lpc = "wait_crc"
    /\ laddr = 2748
    /\ sent = << <<108, 111, 97, 100, 121, 32, 48, 120, 97, 98, 99, 10>> >>
    /\ pending = sent
    /\ perfix = <<61, 62>>
    /\ lreply = <<>>

(***************************************************************************)
(* Properties of the serial terminal                                       *)
(***************************************************************************)
\* what the exit sequence makes of the keys ks from state st: the bytes to
\* forward and the state reached, with Ctrl+A then x ending the session and
\* Ctrl+A then any other key forwarding 0x01 and the key
RECURSIVE ExitSequence(_, _)
ExitSequence(ks, st) ==
    IF ks = <<>> THEN [out |-> <<>>, st |-> st]
    ELSE LET k == Head(ks)
             goOn(bytes, to) ==
                 LET rest == ExitSequence(Tail(ks), to)
                 IN  [out |-> bytes \o rest.out, st |-> rest.st]
         IN  CASE st = "Stopped" -> [out |-> <<>>, st |-> st]
               [] st = "Normal" /\ k.code = "Char" /\ k.c = 97 /\ k.ctrl ->
                      goOn(<<>>, "CtrlAPressed")
               [] st = "Normal" /\ ~(k.code = "Char" /\ k.c = 97 /\ k.ctrl) ->
                      goOn(KeyBytes(k), "Normal")
               [] st = "CtrlAPressed" /\ k.code = "Char" /\ k.c = 120 ->
                      goOn(<<>>, "Stopped")
               [] OTHER -> goOn(<<1>> \o KeyBytes(k), "Normal")

\* C22: in the serial terminal Ctrl+A followed by x stops the session and
\* forwards neither key; Ctrl+A followed by any other key forwards byte 0x01 and
\* then that key and returns to the normal state, so that no key press outside
\* the exit sequence is lost (while every write to the port goes through)
C22_ExitSequence ==
    ~sendFailed =>
        LET e == ExitSequence(keys, "Normal")
        IN  /\ serial = e.out
            /\ e.st = "Stopped" => (~is_running /\ kpc = "done")
            /\ e.st # "Stopped" => key_state = e.st

\* the budget is never restored, and once it is zero nothing more is written
BudgetOnlyFalls ==
    /\ retries' <= retries
    /\ retries = 0 => (txCount' = txCount /\ eots' = eots /\ wire' = wire)

\* the budget falls by one when wait_ack ends with the negative byte of the mode
\* or with a read error, and that cause is kept; once the budget is zero the
\* next pass of send_blk fails the transfer with the cause kept last
FailsWithLastCause ==
    /\ retries' < retries =>
        /\ ypc = "ack"
        /\ retries' = retries - 1
        /\ err' \in {<<"NAK">>, <<"read">>, <<"print">>}
        /\ err' = <<"NAK">> => lastRead'[1] = (IF crc_mode THEN 67 ELSE 21)
        /\ err' = <<"read">> => lastRead' = <<>>
        /\ err' = <<"print">> => lastRead'[1] \notin {6, IF crc_mode THEN 67 ELSE 21}
    /\ (ypc = "blk" /\ retries = 0 /\ txOfCur > 0 /\ ypc' # ypc) =>
        /\ ypc' = "failed"
        /\ err \in {<<"NAK">>, <<"read">>, <<"print">>}
        /\ yresult' = <<"Err", err[1]>>

\* C23: the retry budget is only ever decremented during a transfer, never
\* restored; when it reaches zero the transfer fails with an error that carries
\* the last rejection cause, and every further block send on the same transfer
\* state fails without writing any byte to the channel
C23_BudgetNeverRestored ==
    /\ [][BudgetOnlyFalls]_vars
    /\ [][FailsWithLastCause]_vars
    /\ [](retries = 0 => (ypc \in {"start", "blk", "failed"} /\ yresult # <<"Ok">>))

\* C23 witness: the header was rejected ten times, send was called again and
\* failed with "retry too much" after the same 10 blocks written
C23_Witness ==
    /\ retries = 0
    /\ ypc = "failed"
    /\ yresult = <<"Err", "retry too much">>
    /\ cur.kind = "header"
    /\ txOfCur = 0
    /\ txCount = 10
    /\ err = <<"none">>

(***************************************************************************)
(* C24: while a block awaits acknowledgement, a byte read that is neither  *)
(* ACK nor the negative byte of the mode leaves the wait going on, the     *)
(* retry budget as it is, and causes no retransmission and no failure.     *)
(* The step that reads the byte is the step from "ack" in which lastRead   *)
(* becomes that byte.                                                      *)
(***************************************************************************)
NoiseRead ==
    /\ ypc = "ack"
    /\ Len(lastRead') = 1
    /\ lastRead'[1] \notin {ACK, Nak}

C24_NoiseIsHarmless ==
    [][NoiseRead => /\ ypc' = "ack"
                    /\ retries' = retries
                    /\ err' = err
                    /\ yresult' = yresult
                    /\ txCount' = txCount]_vars

(***************************************************************************)
(* C25: a NAK byte (0x15) read while a block awaits acknowledgement        *)
(* rejects the block in either mode: the rejection is counted against the  *)
(* retry budget and send_blk goes back to write the block again.           *)
(***************************************************************************)
NakRead ==
    /\ ypc = "ack"
    /\ Len(lastRead') = 1
    /\ lastRead'[1] = NAK
    /\ lastRead' # lastRead

NakRejects ==
    /\ ypc' = "blk"
    /\ retries' = retries - 1
    /\ err' = <<"NAK">>

C25_NakRejectsInBothModes == [][NakRead => NakRejects]_vars

NakRejectsInPlainMode == [][(NakRead /\ ~crc_mode) => NakRejects]_vars

(***************************************************************************)
(* C26: the terminating block and the sequence counter                     *)
(***************************************************************************)
\* the step in which the terminating block is acknowledged
LastBlockAcked ==
    /\ ypc = "ack"
    /\ cur.kind = "last"
    /\ ypc' = "final"

\* C26 as stated: the terminating block is written with sequence number 0 and
\* the counter is the same after its acknowledgement as before
C26_AsStated ==
    [][LastBlockAcked => (wire[2] = 0 /\ blk' = blk)]_vars

\* C26: the terminating block is written with sequence number 0 and its
\* complement 255 whatever the counter holds, and its acknowledgement advances
\* the counter by one like that of any other block, 255 being followed by 0
C26_LastBlockAdvancesCounter ==
    [][LastBlockAcked => /\ wire[2] = 0
                         /\ wire[3] = 255
                         /\ blk' = (blk + 1) % 256
                         /\ blk' = (dataBlocks + 2) % 256]_vars

\* C26 witness: the terminating block of a transfer of one data block is
\* acknowledged: it went out as block 0 while the counter stood at 2, and the
\* counter is now 3
C26_Witness ==
    /\ ypc = "final"
    /\ cur.kind = "last"
    /\ dataBlocks = 1
    /\ seqs = <<0, 1, 0>>
    /\ wire[2] = 0
    /\ blk = 3

(***************************************************************************)
(* C27: every block written is the size-class marker, the sequence number  *)
(* b, its complement 255 - b and exactly L payload bytes (followed in CRC  *)
(* mode by the two CRC bytes): SOH and L = 128 for data of at most 128     *)
(* bytes, STX and L = 1024 for longer data; the payload begins with the    *)
(* data, which for a data block are the next bytes of the source.          *)
(***************************************************************************)
C27_BlockLayout ==
    ypc = "ack" =>
        LET small == Len(cur.data) <= 128
            L == IF small THEN 128 ELSE 1024
        IN  /\ wire[1] = (IF small THEN 1 ELSE 2)
            /\ wire[2] \in 0..255
            /\ wire[2] = (IF cur.kind = "last" THEN 0 ELSE blk)
            /\ wire[3] = 255 - wire[2]
            /\ Len(wire) = 3 + L + (IF crc_mode THEN 2 ELSE 0)
            /\ Len(cur.data) <= L
            /\ \A i \in 1..Len(cur.data) : wire[3 + i] = cur.data[i]
            /\ cur.kind = "data" =>
                  \A i \in 1..Len(cur.data) : wire[3 + i] = FileByte(send_size + i)

\* C27 witness: a data block of exactly 128 bytes is on the wire as an SOH block
\* of 128 payload bytes and no padding
C27_Witness ==
    /\ ypc = "ack"
    /\ cur.kind = "data"
    /\ Len(cur.data) = 128
    /\ wire[1] = 1
    /\ Len(wire) = 131 + (IF crc_mode THEN 2 ELSE 0)
    /\ wire[131] = FileByte(send_size + 128)

\* a data block of 129 bytes is on the wire as an STX block of 1024 payload bytes
LargeBlockOnWire ==
    /\ ypc = "ack"
    /\ cur.kind = "data"
    /\ Len(cur.data) = 129
    /\ wire[1] = 2
    /\ Len(wire) = 1027 + (IF crc_mode THEN 2 ELSE 0)

(***************************************************************************)
(* C28: the pad byte of the payload's unused tail                          *)
(***************************************************************************)
\* the bytes of the block on the wire that follow the data within the payload
PadTail ==
    LET L == IF wire[1] = 1 THEN 128 ELSE 1024
    IN  {wire[3 + i] : i \in (Len(cur.data) + 1)..L}

\* C28 as stated: in every block sent, header, data and terminating block
\* alike, the unused tail of the payload holds the byte 0x1A
C28_AsStated ==
    ypc = "ack" => PadTail \subseteq {26}

\* C28: the unused tail of the payload holds 0x1A in a data block and 0x00 in
\* the header block and in the terminating block
C28_PadByteByKind ==
    ypc = "ack" =>
        /\ cur.kind = "data" => PadTail \subseteq {26}
        /\ cur.kind \in {"header", "last"} => PadTail = {0}

\* C28 witness: a data block of one byte is on the wire, padded with 0x1A up to
\* 128 payload bytes
C28_Witness ==
    /\ ypc = "ack"
    /\ cur.kind = "data"
    /\ Len(cur.data) = 1
    /\ PadTail = {26}
    /\ wire[131] = 26
    /\ first[131] = 26
    /\ txCount >= 2

(***************************************************************************)
(* C29: on_progress is called once in the step that acknowledges a data    *)
(* block and in no other step (not for the header block, the EOT or the    *)
(* terminating block); each value is greater than the one before and is    *)
(* the number of source bytes in the data blocks acknowledged so far.      *)
(***************************************************************************)
\* the step in which the data block on the wire is acknowledged
DataBlockAcked ==
    /\ ypc = "ack"
    /\ cur.kind = "data"
    /\ ypc' = "read"

C29_ProgressPerDataBlock ==
    /\ [][ /\ DataBlockAcked => progCalls' = progCalls + 1
           /\ progCalls' # progCalls =>
                 /\ DataBlockAcked
                 /\ progCalls' = progCalls + 1
                 /\ Len(lastRead') = 1
                 /\ lastRead'[1] = 6
                 /\ progLast' > progLast
                 /\ progLast' = progLast + Len(cur.data)
                 /\ progLast' = filePos
           /\ progCalls' = progCalls => progLast' = progLast ]_vars
    /\ [](ypc # "failed" =>
             progCalls = dataBlocks - (IF cur.kind = "data" /\ ypc \in {"blk", "ack"}
                                       THEN 1 ELSE 0))
    /\ [](progCalls = 0 => progLast = 0)

\* C29 witness: a transfer of 3 data blocks, one of them rejected once, has
\* returned Ok: 6 blocks and an EOT were written and the callback ran 3 times,
\* the last time with the size of the source
C29_Witness ==
    /\ ypc = "done"
    /\ yresult = <<"Ok">>
    /\ dataBlocks = 3
    /\ txCount = 6
    /\ eots = 1
    /\ progCalls = 3
    /\ progLast = 2049
    /\ src.size = 2049

(***************************************************************************)
(* C30: the error cmd returns and the response of the last attempt         *)
(***************************************************************************)
\* cmd returned an error and its last attempt read a reply up to the prefix
\* and found no marker at its end
CmdFailedOnResponse ==
    /\ cpc = "idle"
    /\ result[1] = "Err"
    /\ lastErr[1] = "failed"

C31_SenderStopsAfterFlag ==
    /\ [](ok => Len(txOut) <= writesAtStop + 1)
    /\ [](tpc = "done" => ok)
    /\ [][ok => ok']_vars
    /\ [][tpc = "done" => (tpc' = "done" /\ txOut' = txOut)]_vars
    /\ (ok ~> (tpc = "done" /\ spc = "ready" /\ tx = "session"))

\* C31 witness: the flag was stored after 2 interrupt bytes while the sender was
\* past its check; it wrote a third byte and returned, and new() has the
\* write half back
C31_Witness ==
    /\ spc = "ready"
    /\ tx = "session"
    /\ tpc = "done"
    /\ ok
    /\ writesAtStop = 2
    /\ Len(txOut) = 3

(***************************************************************************)
(* C32: every session new() returns holds a prompt-prefix that is not      *)
(* empty.                                                                  *)
(***************************************************************************)
C32_PrefixNotEmpty ==
    spc = "ready" => perfix # <<>>

(***************************************************************************)
(* C33: an attempt of cmd reads up to the first place at which what it     *)
(* has read ends with the prompt-prefix and not one byte further; it is    *)
(* judged on the text in front of that place, and what the remote printed  *)
(* behind it stays buffered on the read half.                              *)
(***************************************************************************)
\* the step in which _cmd judges the reply
JudgeStep ==
    /\ cpc = "judge"
    /\ cpc' # "judge"

\* the reply read without the prefix at its end, trailing whitespace trimmed
FrontRead ==
    TrimEnd(SubSeq(reply, 1, Len(reply) - Len(AsBytes(perfix))))

C33_CutAtFirstPrefix ==
    /\ [](cpc = "judge" =>
            /\ EndsWith(reply, AsBytes(perfix))
            /\ \A i \in 1..(Len(reply) - 1) :
                  ~EndsWith(SubSeq(reply, 1, i), AsBytes(perfix)))
    /\ [][(cpc = "wait" /\ reply' # reply) =>
             /\ reply' \o rx' = reply \o rx
             /\ Len(reply') > Len(reply)]_vars
    /\ [][JudgeStep =>
             /\ rx' = rx
             /\ reply' = reply
             /\ (result'[1] = "Ok" <=> EndsWith(FrontRead, ok_str))]_vars

\* C33 witness: the remote answered " a myprompt> b", newline, the marker line
\* and the prompt; the attempt read " a myprompt> " and is about to be judged
\* while the rest, from "b" on, is still buffered
C33_Witness ==
    /\ cpc = "judge"
    /\ prompt = MyPrompt
    /\ reply = <<32, 97, 32>> \o MyPrompt
    /\ rx = <<98, 10>> \o ok_str \o <<10>> \o MyPrompt

(***************************************************************************)
(* C34: when cmd returns Ok, the remote has answered a command line that   *)
(* this call wrote: a call does not return Ok on the strength of a reply   *)
(* to a line of an earlier call alone.                                     *)
(***************************************************************************)
C34_OkFromOwnReply ==
    (cpc = "idle" /\ calls > 0 /\ result[1] = "Ok") => ownGot[1] # "none"

(***************************************************************************)
(* C35: a failed read (an error of the transport or its timeout) while a   *)
(* block awaits acknowledgement is handled like a rejection: one retry is  *)
(* used and the same block is written again; a failed write ends the       *)
(* block send at once and leaves the budget as it is.                      *)
(***************************************************************************)
\* the step in which the read for the acknowledgement of a block fails
AckReadFailed ==
    /\ ypc = "ack"
    /\ Len(lastRead') = 0

\* the step in which the acknowledgement read is the negative byte of the mode
AckRejected ==
    /\ ypc = "ack"
    /\ Len(lastRead') = 1
    /\ lastRead'[1] = Nak

\* what send_blk does on a rejection: it keeps the cause, uses one retry and
\* goes back to the head of its loop with the same block
CountedAgainstBlock ==
    /\ retries' = retries - 1
    /\ ypc' = "blk"
    /\ cur' = cur
    /\ blk' = blk
    /\ yresult' = yresult
    /\ txCount' = txCount

C35_ReadErrorCountsAsRejection ==
    [][ /\ AckReadFailed => (CountedAgainstBlock /\ err' = <<"read">>)
        /\ AckRejected => (CountedAgainstBlock /\ err' = <<"NAK">>)
        /\ (ypc = "blk" /\ txOfCur > 0 /\ txCount' = txCount + 1) =>
              (retries > 0 /\ wire' = first /\ cur' = cur)
        /\ (ypc = "blk" /\ ypc' = "failed") =>
              /\ retries' = retries
              /\ txCount' = txCount
              /\ retries > 0 => yresult' = <<"Err", "write">> ]_vars

\* C35 witness: the read for the acknowledgement of the first data block failed
\* once; the block was written a second time with one retry used, and is
\* acknowledged
C35_Witness ==
    /\ ypc = "read"
    /\ cur.kind = "data"
    /\ dataBlocks = 1
    /\ err = <<"read">>
    /\ txOfCur = 2
    /\ retries = 9
    /\ wire = first

(***************************************************************************)
(* C36: the sender counts a block as accepted only on an ACK the receiver  *)
(* gave for a transmission of that block. Stated for the linked source,    *)
(* whose bytes in flight carry the number of the block they answer.        *)
(***************************************************************************)
\* the step in which send_blk takes the block on the wire for acknowledged
BlockCountedAccepted ==
    /\ ypc = "ack"
    /\ ypc' \in {"read", "final"}

C36_AckOfThisBlock ==
    [][(src.linked /\ BlockCountedAccepted) =>
          /\ link # <<>>
          /\ Head(link).byte = ACK
          /\ Head(link).ord = Len(seqs)]_vars

\* the header block was written twice after a failed read and the receiver
\* acknowledged both transmissions; the first data block is counted as accepted
\* on the second of these, while the receiver's answer to it, NAK, is in flight
StaleAckTaken ==
    /\ src.linked
    /\ ypc = "read"
    /\ cur.kind = "data"
    /\ dataBlocks = 1
    /\ link = << [byte |-> NAK, ord |-> 2] >>
    /\ ~crc_mode

(***************************************************************************)
(* C37: the EOT byte is written at most once in a transfer and once in     *)
(* every transfer that returns Ok; when the receiver answers it with the   *)
(* negative byte of the mode, send returns the NAK error: no second EOT,   *)
(* no terminating block, and the retry budget as it was.                   *)
(***************************************************************************)
\* the step in which the answer read to the EOT is the negative byte
EotRejected ==
    /\ ypc = "eot_ack"
    /\ Len(lastRead') = 1
    /\ lastRead'[1] = Nak

C37_EotWrittenOnce ==
    /\ [](eots <= 1)
    /\ [](yresult = <<"Ok">> => eots = 1)
    /\ [](ypc = "eot_ack" => (eots = 1 /\ wire = <<EOT>> /\ cur.kind # "last"))
    /\ [][EotRejected => /\ ypc' = "failed"
                         /\ yresult' = <<"Err", "NAK">>
                         /\ retries' = retries
                         /\ UNCHANGED <<wire, txCount, eots, cur, blk>>]_vars
    /\ [][ypc = "failed" => UNCHANGED <<ypc, yresult, wire, txCount, eots, retries>>]_vars

\* C37 witness: the receiver answered the EOT of the 5-byte file with NAK in
\* plain mode; send has returned the NAK error with the budget untouched, two
\* blocks and one EOT written
C37_Witness ==
    /\ ypc = "failed"
    /\ yresult = <<"Err", "NAK">>
    /\ ~crc_mode
    /\ lastRead = <<NAK>>
    /\ wire = <<EOT>>
    /\ eots = 1
    /\ txCount = 2
    /\ retries = InitRetries
    /\ cur.kind = "data"

(***************************************************************************)
(* C38: send returns Ok only when the source was read to its end and every *)
(* byte of it went out in an acknowledged data block.                      *)
(***************************************************************************)
C38_OkMeansWholeSource ==
    (ypc = "done" /\ yresult = <<"Ok">>) =>
        /\ filePos = src.size
        /\ send_size = src.size

(***************************************************************************)
(* C39: when loady fails because the file has no UTF-8 name or cannot be   *)
(* opened, nothing of the `loady` command was written to the channel.      *)
(***************************************************************************)
C39_OpenFailsBeforeWrite ==
    (Len(lresult) = 2 /\ lresult[1] = "Err" /\ lresult[2] \in {"InvalidInput", "open"}) =>
        sent = <<>>

====
